---- MODULE Spec2Model ----
(***************************************************************************)
(* Yield-adjusted price oracle (etherfuse/reflector-contract).             *)
(*                                                                         *)
(* The model follows src/src/extensions/env_extensions.rs: the temporary   *)
(* record store, the last-timestamp marker, the yield-rate validation of   *)
(* set_price, the FX resolution against the external oracle and the price  *)
(* composition.  The contract entry point that loops over a batch of       *)
(* updates lives in lib.rs, whose text is not available; it is modelled    *)
(* from the specification and from the way the tests drive it.             *)
(*                                                                         *)
(* TLC evaluates on 32-bit integers, so the two machine widths of the      *)
(* program are scaled down: I128_MAX and U64_MAX stand for i128::MAX and   *)
(* u64::MAX, and the checked operations fail exactly when the exact        *)
(* result leaves the scaled range.  Fixed-point values use two decimals    *)
(* (10^2 = 1.0) in place of fourteen.                                      *)
(***************************************************************************)
EXTENDS Integers, Sequences, FiniteSets, TLC

(* ------------------------------ bounds -------------------------------- *)

\* number of update calls explored in one behaviour
MaxCalls == 2

\* number of update calls explored in one behaviour of the longer runs
MaxSeqCalls == 3

\* last chain time, in seconds
MaxNow == 6

\* last ledger sequence number
MaxSeq == 16

\* scaled stand-in for i128::MAX
I128_MAX == 32767

\* scaled stand-in for u64::MAX
U64_MAX == 65535

(* ---------------------------- constants ------------------------------- *)

\* timestamp.checked_mul(1000): seconds to milliseconds
MS_PER_SEC == 1000

\* if ledgers_to_live > 16: "16 is the minimum number"
MIN_TEMP_TTL == 16

\* bit 8 of a record key marks a yield record
YIELD_BIT == 8

\* position of the timestamp inside a record key (64 in the program; the
\* key is scaled with the integers)
TS_SHIFT == 9

I128_MIN == 0 - I128_MAX - 1

(* ------------------------------ options ------------------------------- *)

None == [some |-> FALSE, val |-> 0]

Some(v) == [some |-> TRUE, val |-> v]

\* PriceData of the external oracle: price and timestamp in seconds
PriceData(p, t) == [price |-> p, timestamp |-> t]

NoPriceData == [some |-> FALSE, val |-> PriceData(0, 0)]

(* ------------------------- checked arithmetic ------------------------- *)

Abs(x) == IF x < 0 THEN 0 - x ELSE x

\* Rust integer division truncates toward zero
TruncDiv(a, b) ==
    IF (a < 0) = (b < 0) THEN Abs(a) \div Abs(b) ELSE 0 - (Abs(a) \div Abs(b))

InI128(x) == x >= I128_MIN /\ x <= I128_MAX

checked_sub(a, b) == IF InI128(a - b) THEN Some(a - b) ELSE None

checked_mul(a, b) == IF InI128(a * b) THEN Some(a * b) ELSE None

checked_div(a, b) ==
    IF b = 0 \/ (a = I128_MIN /\ b = 0 - 1) THEN None ELSE Some(TruncDiv(a, b))

RECURSIVE checked_pow(_, _)
checked_pow(base, exp) ==
    IF exp = 0 THEN Some(1)
    ELSE LET r == checked_pow(base, exp - 1)
         IN  IF r.some THEN checked_mul(r.val, base) ELSE None

u64_checked_mul(a, b) == IF a * b <= U64_MAX THEN Some(a * b) ELSE None

abs_diff(a, b) == IF a >= b THEN a - b ELSE b - a

RECURSIVE Pow2(_)
Pow2(n) == IF n = 0 THEN 1 ELSE 2 * Pow2(n - 1)

RECURSIVE Pow10(_)
Pow10(n) == IF n = 0 THEN 1 ELSE 10 * Pow10(n - 1)

\* floor(log10(n)) of a positive integer
RECURSIVE ilog10(_)
ilog10(n) == IF n < 10 THEN 0 ELSE 1 + ilog10(n \div 10)

min(a, b) == IF a <= b THEN a ELSE b

\* the two's complement value an unchecked operation leaves for x
wrapping(x) == ((x - I128_MIN) % (I128_MAX - I128_MIN + 1)) + I128_MIN

(* ------------------------------- state -------------------------------- *)

VARIABLES
    temp,            \* temporary storage: record key -> [val, live_until]
    last_timestamp,  \* instance storage LAST_TIMESTAMP (0 when unset)
    config,          \* instance storage: decimals, resolution, ...
    now,             \* ledger().timestamp(), seconds
    seq,             \* ledger sequence number
    calls,           \* number of update calls made
    lastCall,        \* the most recent update call and what it did
    lastAccepted,    \* per asset, the yield rate of its last accepted update
    observed         \* the most recent query or single-slot update and its result

vars == <<temp, last_timestamp, config, now, seq, calls, lastCall, lastAccepted,
          observed>>

\* FXS of the instance storage: the FX symbol registered for each asset slot
\* (slot i is fxs[i + 1])
fxs == config.fxs

\* the registry the tests set up: a slot priced in the base currency and a
\* slot priced through the oracle
TwoAssets == <<"USD", "MXN">>

\* the registry entries of the instance storage after assets 0, 1, ... were
\* added with the given FX symbols: FXS, ASSETS and the index of each asset
Registered(symbols) ==
    [fxs |-> symbols,
     assets |-> [i \in 1 .. Len(symbols) |-> i - 1],
     index |-> [a \in 0 .. (Len(symbols) - 1) |-> a]]

NumAssets == Len(fxs)

AssetSlots == 0 .. (NumAssets - 1)

\* configurations the contract is set up with
Configs ==
    { [decimals |-> 2, resolution |-> 2000, max_yield_deviation |-> 10,
       fx_oracle_address |-> TRUE, ledgers_to_live |-> 17]
       @@ Registered(TwoAssets),
      [decimals |-> 2, resolution |-> 2000, max_yield_deviation |-> 0,
       fx_oracle_address |-> TRUE, ledgers_to_live |-> 10]
       @@ Registered(TwoAssets),
      [decimals |-> 2, resolution |-> 2000, max_yield_deviation |-> 10,
       fx_oracle_address |-> FALSE, ledgers_to_live |-> 17]
       @@ Registered(TwoAssets) }

get_decimals == config.decimals

get_resolution == config.resolution

\* the value of a configuration entry that was never written
UNSET == 0 - 1

\* variant: an unset maximum puts no limit on the rise
get_max_yield_deviation_unlimited ==
    IF config.max_yield_deviation = UNSET THEN I128_MAX ELSE config.max_yield_deviation

\* MAX_YIELD_DEVIATION of the instance storage, 0 when nothing is stored
get_max_yield_deviation ==
    IF config.max_yield_deviation = UNSET THEN 0 ELSE config.max_yield_deviation

get_fx_oracle_address == config.fx_oracle_address

\* variant: the marker is looked up where nothing is stored
get_last_timestamp_unset == IF None.some THEN last_timestamp ELSE None.val

\* LAST_TIMESTAMP of the instance storage, 0 when nothing is stored
get_last_timestamp == last_timestamp

(* -------------------------- temporary storage ------------------------- *)

temp_live(store, key) == key \in DOMAIN store /\ store[key].live_until >= seq

temp_get(store, key) == IF temp_live(store, key) THEN Some(store[key].val) ELSE None

\* set keeps the time-to-live of a live entry; a new entry gets the minimum
temp_set(store, key, v) ==
    IF temp_live(store, key)
    THEN [store EXCEPT ![key].val = v]
    ELSE [k \in (DOMAIN store) \cup {key} |->
            IF k = key THEN [val |-> v, live_until |-> seq + MIN_TEMP_TTL - 1]
            ELSE store[k]]

\* extend_ttl(key, threshold, extend_to)
temp_extend_ttl(store, key, threshold, extend_to) ==
    IF temp_live(store, key) /\ store[key].live_until - seq < threshold
    THEN [store EXCEPT ![key].live_until = seq + extend_to]
    ELSE store

(* ----------------------------- record keys ---------------------------- *)

encode_record_key(timestamp, asset) == timestamp * Pow2(TS_SHIFT) + asset

\* variant: the yield record is marked one bit lower
yield_key_bit7(timestamp, asset) ==
    LET k == encode_record_key(timestamp, asset)
    IN  IF (k \div Pow2(YIELD_BIT - 1)) % 2 = 1 THEN k ELSE k + Pow2(YIELD_BIT - 1)

\* key | (1 << 8)
yield_key(timestamp, asset) ==
    LET k == encode_record_key(timestamp, asset)
    IN  IF (k \div Pow2(YIELD_BIT)) % 2 = 1 THEN k ELSE k + Pow2(YIELD_BIT)

\* variant: the lookup uses the key of the yield record
get_price_at_yield_key(store, asset, timestamp) ==
    temp_get(store, yield_key(timestamp, asset))

get_price(store, asset, timestamp) ==
    temp_get(store, encode_record_key(timestamp, asset))

get_last_yield_rate(store, asset, timestamp) ==
    temp_get(store, yield_key(timestamp, asset))

\* variant: the yield record keeps the minimum time-to-live
set_last_yield_rate_no_extend(store, asset, timestamp, yield_rate, ledgers) ==
    temp_set(store, yield_key(timestamp, asset), yield_rate)

set_last_yield_rate(store, asset, timestamp, yield_rate, ledgers) ==
    LET s1 == temp_set(store, yield_key(timestamp, asset), yield_rate)
    IN  IF ledgers > MIN_TEMP_TTL
        THEN temp_extend_ttl(s1, yield_key(timestamp, asset), ledgers, ledgers)
        ELSE s1

(* ------------------------- continuity resolver ------------------------ *)

\* variant: a gap of exactly two resolutions still counts as recent
obtain_record_timestamp_gap_inclusive ==
    LET ledger_timestamp == now * MS_PER_SEC
    IN  IF \/ get_last_timestamp = 0
           \/ get_last_timestamp > ledger_timestamp
           \/ ledger_timestamp - get_last_timestamp > get_resolution * 2
        THEN 0
        ELSE get_last_timestamp

\* variant: the marker is returned however old it is
obtain_record_timestamp_any_age ==
    LET ledger_timestamp == now * MS_PER_SEC
    IN  IF \/ get_last_timestamp = 0
           \/ get_last_timestamp > ledger_timestamp
        THEN 0
        ELSE get_last_timestamp

obtain_record_timestamp ==
    LET ledger_timestamp == now * MS_PER_SEC
    IN  IF \/ get_last_timestamp = 0
           \/ get_last_timestamp > ledger_timestamp
           \/ ledger_timestamp - get_last_timestamp >= get_resolution * 2
        THEN 0
        ELSE get_last_timestamp

(* ------------------------------ results ------------------------------- *)

Ok(v) == [err |-> "ok", val |-> v]

Fail(e) == [err |-> e, val |-> 0]

(* ---------------------------- FX resolver ----------------------------- *)

\* the oracle client, or FxOracleUnavailable when no address is configured
get_reflector_oracle ==
    IF get_fx_oracle_address THEN Ok(0) ELSE Fail("FxOracleUnavailable")

\* variant: the scale of the base currency is written out as a literal
\* instead of being taken from the configured decimals
base_fx_price_hardcoded == Ok(10)

\* the base currency is priced at 1.0 without asking the oracle
base_fx_price ==
    LET one == checked_pow(10, get_decimals)
    IN  IF one.some THEN Ok(one.val) ELSE Fail("IntegerOverflow")

\* variant: the conversion to milliseconds wraps around
oracle_timestamp_to_ms_wrapping(timestamp) ==
    Some((timestamp * MS_PER_SEC) % (U64_MAX + 1))

\* price_data.timestamp.checked_mul(1000): seconds to milliseconds
oracle_timestamp_to_ms(timestamp) == u64_checked_mul(timestamp, MS_PER_SEC)

\* variant: a drift of exactly two resolutions is refused too
drift_check_inclusive(oracle_timestamp_ms, contract_next_timestamp) ==
    LET max_drift == 2 * get_resolution
        drift == abs_diff(oracle_timestamp_ms, contract_next_timestamp)
    IN  IF drift >= max_drift THEN Fail("FxOracleTimestampDrift") ELSE Ok(drift)

\* the oracle timestamp is within two resolutions of the update's timestamp
drift_check(oracle_timestamp_ms, contract_next_timestamp) ==
    LET max_drift == 2 * get_resolution
        drift == abs_diff(oracle_timestamp_ms, contract_next_timestamp)
    IN  IF drift > max_drift THEN Fail("FxOracleTimestampDrift") ELSE Ok(drift)

\* variant: only a negative price is refused
fx_price_check_negative_only(fx_price) ==
    IF fx_price < 0 THEN Fail("InvalidFxPrice") ELSE Ok(fx_price)

\* validate the price
fx_price_check(fx_price) ==
    IF fx_price <= 0 THEN Fail("InvalidFxPrice") ELSE Ok(fx_price)

\* variant: the sign of the price is checked before the oracle's timestamp
oracle_fx_price_sign_first(fx, contract_next_timestamp, oracle) ==
    IF get_reflector_oracle.err # "ok" THEN Fail(get_reflector_oracle.err)
    ELSE LET price_data == oracle[fx] IN
         IF ~price_data.some THEN Fail("StaleFxPrice")
         ELSE LET oracle_timestamp_ms ==
                      oracle_timestamp_to_ms(price_data.val.timestamp)
                  drift == drift_check(oracle_timestamp_ms.val,
                                       contract_next_timestamp)
              IN  IF fx_price_check(price_data.val.price).err # "ok"
                  THEN fx_price_check(price_data.val.price)
                  ELSE IF contract_next_timestamp > 0 /\ ~oracle_timestamp_ms.some
                  THEN Fail("IntegerOverflow")
                  ELSE IF contract_next_timestamp > 0 /\ drift.err # "ok"
                  THEN Fail(drift.err)
                  ELSE Ok(price_data.val.price)

\* every other symbol: the oracle's last price, checked for drift and sign;
\* oracle is the answer of the external contract to lastprice, per ticker
oracle_fx_price(fx, contract_next_timestamp, oracle) ==
    IF get_reflector_oracle.err # "ok" THEN Fail(get_reflector_oracle.err)
    ELSE LET price_data == oracle[fx] IN
         IF ~price_data.some THEN Fail("StaleFxPrice")
         ELSE LET oracle_timestamp_ms ==
                      oracle_timestamp_to_ms(price_data.val.timestamp)
                  drift == drift_check(oracle_timestamp_ms.val,
                                       contract_next_timestamp)
              IN  IF contract_next_timestamp > 0 /\ ~oracle_timestamp_ms.some
                  THEN Fail("IntegerOverflow")
                  ELSE IF contract_next_timestamp > 0 /\ drift.err # "ok"
                  THEN Fail(drift.err)
                  ELSE fx_price_check(price_data.val.price)

\* variant: the oracle client is obtained before the symbol is looked at
get_reflector_fx_price_oracle_first(fx, contract_next_timestamp, oracle) ==
    IF get_reflector_oracle.err # "ok" THEN Fail(get_reflector_oracle.err)
    ELSE IF fx = "USD" THEN base_fx_price
    ELSE oracle_fx_price(fx, contract_next_timestamp, oracle)

get_reflector_fx_price(fx, contract_next_timestamp, oracle) ==
    IF fx = "USD" THEN base_fx_price
    ELSE oracle_fx_price(fx, contract_next_timestamp, oracle)

(* -------------------------- price compositor -------------------------- *)

\* variant: divides the FX rate before multiplying by the yield rate
get_price_with_yield_div_first(yield_rate, fx_price, decimals) ==
    LET divisor == checked_pow(10, decimals)
    IN  IF ~divisor.some THEN Fail("IntegerOverflow")
        ELSE LET q == checked_div(fx_price, divisor.val) IN
             IF ~q.some THEN Fail("IntegerOverflow")
             ELSE LET m == checked_mul(q.val, yield_rate)
                  IN  IF m.some THEN Ok(m.val) ELSE Fail("IntegerOverflow")

\* variant: the product wraps around instead of being checked
get_price_with_yield_wrapping(yield_rate, fx_price, decimals) ==
    LET wrapped == ((fx_price * yield_rate - I128_MIN) % (2 * (I128_MAX + 1)))
                      + I128_MIN
        divisor == checked_pow(10, decimals)
    IN  IF ~divisor.some THEN Fail("IntegerOverflow")
        ELSE LET q == checked_div(wrapped, divisor.val)
             IN  IF q.some THEN Ok(q.val) ELSE Fail("IntegerOverflow")

get_price_with_yield(yield_rate, fx_price, decimals) ==
    LET intermediate == checked_mul(fx_price, yield_rate)
        divisor == checked_pow(10, decimals)
    IN  IF ~intermediate.some THEN Fail("IntegerOverflow")
        ELSE IF ~divisor.some THEN Fail("IntegerOverflow")
        ELSE LET q == checked_div(intermediate.val, divisor.val)
             IN  IF q.some THEN Ok(q.val) ELSE Fail("IntegerOverflow")

(* --------------------------- yield validator -------------------------- *)

\* variant: a yield rate of exactly 1.0 is rejected too
min_yield_check_strict(yield_rate, decimals) ==
    LET min_yield_rate == checked_pow(10, decimals)
    IN  IF ~min_yield_rate.some THEN Fail("IntegerOverflow")
        ELSE IF yield_rate <= min_yield_rate.val THEN Fail("InvalidYieldRate")
        ELSE Ok(min_yield_rate.val)

\* variant: no floor on the yield rate
min_yield_check_any(yield_rate, decimals) ==
    LET min_yield_rate == checked_pow(10, decimals)
    IN  IF ~min_yield_rate.some THEN Fail("IntegerOverflow")
        ELSE Ok(min_yield_rate.val)

\* yield_rate < 10^decimals
min_yield_check(yield_rate, decimals) ==
    LET min_yield_rate == checked_pow(10, decimals)
    IN  IF ~min_yield_rate.some THEN Fail("IntegerOverflow")
        ELSE IF yield_rate < min_yield_rate.val THEN Fail("InvalidYieldRate")
        ELSE Ok(min_yield_rate.val)

\* variant: reads at the raw marker, without the continuity resolver
previous_yield_rate_at_marker(store, asset) ==
    IF get_last_timestamp > 0
    THEN get_last_yield_rate(store, asset, get_last_timestamp)
    ELSE None

\* variant: every slot is compared with the yield record of slot 0
previous_yield_rate_of_first_slot(store, asset) ==
    LET ts == obtain_record_timestamp
    IN  IF ts > 0 THEN get_last_yield_rate(store, 0, ts) ELSE None

\* the rate the new one is compared with: the yield record of the asset at
\* the timestamp of the continuity resolver
previous_yield_rate(store, asset) ==
    LET ts == obtain_record_timestamp
    IN  IF ts > 0 THEN get_last_yield_rate(store, asset, ts) ELSE None

\* variant: the drop is compared with the configured deviation
drop_check_configured(yield_rate, prev_rate) ==
    IF yield_rate < prev_rate
    THEN LET drop == checked_sub(prev_rate, yield_rate) IN
         IF ~drop.some THEN Fail("IntegerOverflow")
         ELSE LET drop_times_100 == checked_mul(drop.val, 100) IN
              IF ~drop_times_100.some THEN Fail("IntegerOverflow")
              ELSE LET percentage_drop == checked_div(drop_times_100.val, prev_rate) IN
                   IF ~percentage_drop.some THEN Fail("IntegerOverflow")
                   ELSE IF percentage_drop.val > get_max_yield_deviation
                        THEN Fail("YieldRateDecreased")
                        ELSE Ok(percentage_drop.val)
    ELSE Ok(0)

\* monotonic check: a drop of more than 1% is rejected
drop_check(yield_rate, prev_rate) ==
    IF yield_rate < prev_rate
    THEN LET drop == checked_sub(prev_rate, yield_rate) IN
         IF ~drop.some THEN Fail("IntegerOverflow")
         ELSE LET drop_times_100 == checked_mul(drop.val, 100) IN
              IF ~drop_times_100.some THEN Fail("IntegerOverflow")
              ELSE LET percentage_drop == checked_div(drop_times_100.val, prev_rate) IN
                   IF ~percentage_drop.some THEN Fail("IntegerOverflow")
                   ELSE IF percentage_drop.val > 1 THEN Fail("YieldRateDecreased")
                   ELSE Ok(percentage_drop.val)
    ELSE Ok(0)

\* variant: a rise of exactly the maximum is rejected too
deviation_check_inclusive(yield_rate, prev_rate) ==
    LET change == checked_sub(yield_rate, prev_rate) IN
    IF ~change.some THEN Fail("IntegerOverflow")
    ELSE LET change_times_100 == checked_mul(change.val, 100) IN
         IF ~change_times_100.some THEN Fail("IntegerOverflow")
         ELSE LET percentage_change == checked_div(change_times_100.val, prev_rate) IN
              IF ~percentage_change.some THEN Fail("IntegerOverflow")
              ELSE IF percentage_change.val >= get_max_yield_deviation
                   THEN Fail("YieldRateDeviationExceeded")
                   ELSE Ok(percentage_change.val)

\* variant: the change is taken as a percentage of the new rate
deviation_check_of_new_rate(yield_rate, prev_rate) ==
    LET change == checked_sub(yield_rate, prev_rate) IN
    IF ~change.some THEN Fail("IntegerOverflow")
    ELSE LET change_times_100 == checked_mul(change.val, 100) IN
         IF ~change_times_100.some THEN Fail("IntegerOverflow")
         ELSE LET percentage_change == checked_div(change_times_100.val, yield_rate) IN
              IF ~percentage_change.some THEN Fail("IntegerOverflow")
              ELSE IF percentage_change.val > get_max_yield_deviation
                   THEN Fail("YieldRateDeviationExceeded")
                   ELSE Ok(percentage_change.val)

\* variant: the change is multiplied by 100 without a check of the width
deviation_check_unchecked(yield_rate, prev_rate) ==
    LET percentage_change == TruncDiv((yield_rate - prev_rate) * 100, prev_rate)
    IN  IF percentage_change > get_max_yield_deviation
        THEN Fail("YieldRateDeviationExceeded")
        ELSE Ok(percentage_change)

\* deviation check: a rise of more than max_yield_deviation percent is rejected
deviation_check(yield_rate, prev_rate) ==
    LET change == checked_sub(yield_rate, prev_rate) IN
    IF ~change.some THEN Fail("IntegerOverflow")
    ELSE LET change_times_100 == checked_mul(change.val, 100) IN
         IF ~change_times_100.some THEN Fail("IntegerOverflow")
         ELSE LET percentage_change == checked_div(change_times_100.val, prev_rate) IN
              IF ~percentage_change.some THEN Fail("IntegerOverflow")
              ELSE IF percentage_change.val > get_max_yield_deviation
                   THEN Fail("YieldRateDeviationExceeded")
                   ELSE Ok(percentage_change.val)

(* ------------------------------ set_price ----------------------------- *)

\* The result carries the store as the call left it: on an error, the store
\* at the moment of the panic, with the writes made so far.
set_price(store, asset, fx, yield_rate, timestamp, ledgers_to_live, oracle) ==
    LET decimals == get_decimals
        floor == min_yield_check(yield_rate, decimals)
        prev == previous_yield_rate(store, asset)
        drop == IF prev.some THEN drop_check(yield_rate, prev.val) ELSE Ok(0)
        dev == IF prev.some THEN deviation_check(yield_rate, prev.val) ELSE Ok(0)
        s1 == set_last_yield_rate(store, asset, timestamp, yield_rate, ledgers_to_live)
        data_key == encode_record_key(timestamp, asset)
        fx_price == get_reflector_fx_price(fx, timestamp, oracle)
        price == get_price_with_yield(yield_rate, fx_price.val, decimals)
        s2 == temp_set(s1, data_key, price.val)
        s3 == IF ledgers_to_live > MIN_TEMP_TTL
              THEN temp_extend_ttl(s2, data_key, ledgers_to_live, ledgers_to_live)
              ELSE s2
    IN  IF floor.err # "ok" THEN [err |-> floor.err, store |-> store, prev |-> None]
        ELSE IF drop.err # "ok" THEN [err |-> drop.err, store |-> store, prev |-> prev]
        ELSE IF dev.err # "ok" THEN [err |-> dev.err, store |-> store, prev |-> prev]
        ELSE IF fx_price.err # "ok" THEN [err |-> fx_price.err, store |-> s1, prev |-> prev]
        ELSE IF price.err # "ok" THEN [err |-> price.err, store |-> s1, prev |-> prev]
        ELSE [err |-> "ok", store |-> s3, prev |-> prev]

(* ------------------------- the update entry point --------------------- *)

\* what a call did for each asset slot before it returned or failed
NotReached == [a \in AssetSlots |-> "not_reached"]

NoPrev == [a \in AssetSlots |-> None]

\* variant: a zero entry goes through set_price like any other
RECURSIVE update_loop_zero_checked(_, _, _, _, _)
update_loop_zero_checked(i, acc, updates, timestamp, oracle) ==
    IF i >= NumAssets \/ acc.err # "ok" THEN acc
    ELSE LET r == set_price(acc.store, i, fxs[i + 1], updates[i + 1], timestamp,
                            config.ledgers_to_live, oracle)
         IN  update_loop_zero_checked(i + 1,
                         [err |-> r.err, store |-> r.store,
                          outcome |-> [acc.outcome EXCEPT ![i] = r.err],
                          prev |-> [acc.prev EXCEPT ![i] = r.prev]],
                         updates, timestamp, oracle)

\* the loop over the batch: a zero entry is skipped, every other entry goes
\* through set_price, and the first error ends the call
RECURSIVE update_loop(_, _, _, _, _)
update_loop(i, acc, updates, timestamp, oracle) ==
    IF i >= NumAssets \/ acc.err # "ok" THEN acc
    ELSE IF updates[i + 1] = 0
    THEN update_loop(i + 1, [acc EXCEPT !.outcome[i] = "skipped"],
                     updates, timestamp, oracle)
    ELSE LET r == set_price(acc.store, i, fxs[i + 1], updates[i + 1], timestamp,
                            config.ledgers_to_live, oracle)
         IN  update_loop(i + 1,
                         [err |-> r.err, store |-> r.store,
                          outcome |-> [acc.outcome EXCEPT ![i] = r.err],
                          prev |-> [acc.prev EXCEPT ![i] = r.prev]],
                         updates, timestamp, oracle)

\* variant: a timestamp after the chain time is let through
is_invalid_timestamp_allows_future(timestamp) ==
    \/ timestamp = 0
    \/ timestamp % get_resolution # 0

\* timestamp == 0, not a multiple of the resolution, or in the future
is_invalid_timestamp(timestamp) ==
    \/ timestamp = 0
    \/ timestamp % get_resolution # 0
    \/ timestamp > now * MS_PER_SEC

\* variant: only a batch with too few entries is refused
invalid_update_length_short_only(updates) == Len(updates) < NumAssets

\* the batch does not have one entry per registered asset
invalid_update_length(updates) == Len(updates) # NumAssets

\* the contract's update call: checks, the loop, then the marker
contract_set_price(updates, timestamp, oracle) ==
    LET start == [err |-> "ok", store |-> temp, outcome |-> NotReached, prev |-> NoPrev]
    IN  IF invalid_update_length(updates)
        THEN [start EXCEPT !.err = "InvalidUpdateLength"] @@ [marker |-> last_timestamp]
        ELSE IF is_invalid_timestamp(timestamp)
        THEN [start EXCEPT !.err = "InvalidTimestamp"] @@ [marker |-> last_timestamp]
        ELSE LET r == update_loop(0, start, updates, timestamp, oracle)
             IN  r @@ [marker |-> IF timestamp > get_last_timestamp
                                  THEN timestamp ELSE get_last_timestamp]

\* variant: the writes made before the panic are kept
Commit_partial(r, before, after) == after

\* a panic aborts the invocation and the host discards every write of it
Commit(r, before, after) == IF r.err = "ok" THEN after ELSE before

(* ------------------------- fixed-point division ----------------------- *)

\* the largest shift of a dividend: 38 for an i128
MAX_SHIFT == ilog10(I128_MAX)

\* variant: a dividend of zero is divided like any other
div_floor_zero_dividend(overflow_checks, dividend, divisor, decimals) ==
    IF dividend < 0 \/ divisor <= 0 THEN Fail("panic")
    ELSE IF dividend = 0 THEN Ok(0)
    ELSE LET vdividend == dividend * Pow10(decimals)
         IN  IF ~InI128(vdividend) THEN Fail("panic")
             ELSE Ok(TruncDiv(vdividend, divisor))

\* variant: the dividend is shifted by one digit less than the width allows
div_floor_short_shift(overflow_checks, dividend, divisor, decimals) ==
    IF dividend <= 0 \/ divisor <= 0 THEN Fail("panic")
    ELSE LET ashift == min(MAX_SHIFT - ilog10(dividend) - 1, decimals)
             bshift == decimals - ashift
             vdividend == dividend * Pow10(IF ashift > 0 THEN ashift ELSE 0)
             vdivisor == TruncDiv(divisor, Pow10(bshift))
         IN  IF ~InI128(vdividend) \/ ~InI128(Pow10(bshift)) \/ vdivisor = 0
             THEN Fail("panic")
             ELSE Ok(TruncDiv(vdividend, vdivisor))

\* variant: checked multiplication by the whole scale factor
div_floor_checked(overflow_checks, dividend, divisor, decimals) ==
    IF dividend <= 0 \/ divisor <= 0 THEN Fail("panic")
    ELSE LET scale == checked_pow(10, decimals)
             vdividend == IF scale.some THEN checked_mul(dividend, scale.val) ELSE None
         IN  IF ~vdividend.some THEN Fail("panic")
             ELSE Ok(TruncDiv(vdividend.val, divisor))

\* dividend * 10^decimals / divisor without a wider integer: the dividend is
\* shifted by as many digits as the width allows (ashift) and the divisor is
\* cut by the remaining digits (bshift).  An operand that is not positive
\* panics.  The two shifts are plain arithmetic: an overflow panics in a
\* build with overflow checks and wraps in a build without them.
div_floor(overflow_checks, dividend, divisor, decimals) ==
    IF dividend <= 0 \/ divisor <= 0 THEN Fail("panic")
    ELSE LET ashift == min(MAX_SHIFT - ilog10(dividend), decimals)
             bshift == decimals - ashift
             vdividend == dividend * Pow10(ashift)
             bpow == Pow10(bshift)
         IN  IF overflow_checks /\ (~InI128(vdividend) \/ ~InI128(bpow))
             THEN Fail("panic")
             ELSE LET vdivisor == checked_div(divisor, wrapping(bpow))
                      quotient == IF vdivisor.some
                                  THEN checked_div(wrapping(vdividend), vdivisor.val)
                                  ELSE None
                  IN  IF quotient.some THEN Ok(quotient.val) ELSE Fail("panic")

\* the outcomes of self.fixed_div_floor(y, decimals) over the builds
fixed_div_floor(dividend, divisor, decimals) ==
    {div_floor(overflow_checks, dividend, divisor, decimals) :
        overflow_checks \in BOOLEAN}

(* ------------------------------- queries ------------------------------ *)

\* (timestamp / resolution) * resolution: the start of the bucket
get_normalized_timestamp(timestamp, resolution) ==
    (timestamp \div resolution) * resolution

\* the price record of an asset at a timestamp, reported in seconds
get_price_data(store, asset, timestamp) ==
    LET p == get_price(store, asset, timestamp)
    IN  IF p.some THEN Some(PriceData(p.val, timestamp \div MS_PER_SEC))
        ELSE NoPriceData

\* an asset slot is a u8
MAX_ASSET_SLOT == 255

\* index as u8
as_u8(index) == index % (MAX_ASSET_SLOT + 1)

\* variant: an asset without an index reads as slot 0
get_asset_index_default(asset) ==
    IF asset \in DOMAIN config.index THEN Some(as_u8(config.index[asset])) ELSE Some(0)

\* the slot of an asset, if it is registered: the index stored for it in the
\* instance storage, as a u8
get_asset_index(asset) ==
    IF asset \in DOMAIN config.index THEN Some(as_u8(config.index[asset])) ELSE None

\* the most recent price of an asset, if the history is usable
lastprice(asset) ==
    LET asset_index == get_asset_index(asset)
        timestamp == obtain_record_timestamp
    IN  IF ~asset_index.some \/ timestamp = 0 THEN NoPriceData
        ELSE get_price_data(temp, asset_index.val, timestamp)

\* the price of an asset at a timestamp given in seconds
price(asset, timestamp) ==
    LET asset_index == get_asset_index(asset)
    IN  IF ~asset_index.some THEN NoPriceData
        ELSE get_price_data(temp, asset_index.val,
                            get_normalized_timestamp(timestamp * MS_PER_SEC,
                                                     get_resolution))

\* a query that returned v
Returned(v) == [err |-> "ok", val |-> v]

\* a query that panicked
Panicked == [err |-> "panic", val |-> NoPriceData]

\* the outcomes of the cross price of two slots at a timestamp: no data when a
\* leg has no record, otherwise fixed_div_floor of the two prices
get_x_price_by_indexes(store, base_asset, quote_asset, timestamp) ==
    LET base_asset_price == get_price(store, base_asset, timestamp)
        quote_asset_price == get_price(store, quote_asset, timestamp)
    IN  IF ~base_asset_price.some \/ ~quote_asset_price.some
        THEN {Returned(NoPriceData)}
        ELSE {IF r.err = "ok"
              THEN Returned(Some(PriceData(r.val, timestamp \div MS_PER_SEC)))
              ELSE Panicked :
                 r \in fixed_div_floor(base_asset_price.val, quote_asset_price.val,
                                       get_decimals)}

\* the outcomes of the cross price of two assets at a timestamp
get_x_price(store, base_asset, quote_asset, timestamp) ==
    LET base_index == get_asset_index(base_asset)
        quote_index == get_asset_index(quote_asset)
    IN  IF ~base_index.some \/ ~quote_index.some THEN {Returned(NoPriceData)}
        ELSE get_x_price_by_indexes(store, base_index.val, quote_index.val, timestamp)

\* the most recent cross price of two assets, if the history is usable
x_last_price(base_asset, quote_asset) ==
    LET timestamp == obtain_record_timestamp
    IN  IF timestamp = 0 THEN {Returned(NoPriceData)}
        ELSE get_x_price(temp, base_asset, quote_asset, timestamp)

\* the cross price of two assets at a timestamp given in seconds
x_price(base_asset, quote_asset, timestamp) ==
    get_x_price(temp, base_asset, quote_asset,
                get_normalized_timestamp(timestamp * MS_PER_SEC, get_resolution))

\* the outcomes of the price a period contributes to an average: the price of
\* the asset, or its cross price when a quote asset is given
get_period_price(store, base_asset, quote_asset, timestamp) ==
    IF quote_asset.some
    THEN get_x_price(store, base_asset, quote_asset.val, timestamp)
    ELSE LET asset_index == get_asset_index(base_asset)
         IN  IF ~asset_index.some THEN {Returned(NoPriceData)}
             ELSE {Returned(get_price_data(store, asset_index.val, timestamp))}

\* no sum: a period had no price
NoSum == [err |-> "ok", some |-> FALSE, val |-> 0]

\* the outcomes of summing the prices of `records` consecutive periods, the
\* last of them at `timestamp`: no sum as soon as a period has no price
RECURSIVE prices(_, _, _, _)
prices(base_asset, quote_asset, timestamp, records) ==
    IF records = 0 THEN {[err |-> "ok", some |-> TRUE, val |-> 0]}
    ELSE IF timestamp <= 0 THEN {NoSum}
    ELSE UNION {
        IF p.err # "ok" THEN {[err |-> "panic", some |-> FALSE, val |-> 0]}
        ELSE IF ~p.val.some THEN {NoSum}
        ELSE {IF rest.err # "ok" \/ ~rest.some THEN rest
              ELSE IF InI128(rest.val + p.val.val.price)
              THEN [err |-> "ok", some |-> TRUE, val |-> rest.val + p.val.val.price]
              ELSE [err |-> "panic", some |-> FALSE, val |-> 0] :
                 rest \in prices(base_asset, quote_asset,
                                 timestamp - get_resolution, records - 1)} :
        p \in get_period_price(temp, base_asset, quote_asset, timestamp)}

\* the outcomes of the average over `records` periods that end at the
\* latest timestamp: nothing without usable history or with a period missing
get_twap(base_asset, quote_asset, records) ==
    LET timestamp == obtain_record_timestamp
    IN  IF timestamp = 0 THEN {[err |-> "ok", val |-> None]}
        ELSE {IF sum.err # "ok" THEN [err |-> "panic", val |-> None]
              ELSE IF ~sum.some THEN [err |-> "ok", val |-> None]
              ELSE [err |-> "ok", val |-> Some(TruncDiv(sum.val, records))] :
                 sum \in prices(base_asset, quote_asset, timestamp, records)}

\* variant: the latest price alone, whatever the number of periods
twap_latest_only(asset, records) == get_twap(asset, None, 1)

\* the time-weighted average price of an asset over `records` periods
twap(asset, records) == get_twap(asset, None, records)

\* the time-weighted average cross price of two assets over `records` periods
x_twap(base_asset, quote_asset, records) ==
    get_twap(base_asset, Some(quote_asset), records)

(* ------------------------------- inputs ------------------------------- *)

\* yield rates sent for slot 0 (USD); slot 1 (MXN) is then left out with 0
YieldInputs0 == {99, 100, 108, 110, 111, 400}

TimestampInputs == {2000, 4000, 6000}

\* timestamps the entry point refuses: zero, and off the resolution grid
BadTimestampInputs == {0, 3000}

\* the oracle answers with a fresh, positive price
GoodAnswer == [MXN |-> Some(PriceData(57, 4))]

OracleAnswers ==
    { GoodAnswer,
      [MXN |-> NoPriceData],
      [MXN |-> Some(PriceData(57, 0))],
      [MXN |-> Some(PriceData(0, 4))] }

\* the calls made to the contract: every yield rate for slot 0 alone, two
\* batches for both slots against every oracle answer, and one batch at the
\* refused timestamps
CallInputs ==
    {[updates |-> <<a, 0>>, timestamp |-> t, oracle |-> GoodAnswer] :
        a \in YieldInputs0, t \in TimestampInputs}
    \cup
    {[updates |-> u, timestamp |-> t, oracle |-> o] :
        u \in {<<100, 110>>, <<400, 400>>}, t \in {2000, 6000}, o \in OracleAnswers}
    \cup
    {[updates |-> <<100, 110>>, timestamp |-> t, oracle |-> GoodAnswer] :
        t \in BadTimestampInputs}

\* the calls of the longer runs
SeqCallInputs ==
    {[updates |-> <<a, b>>, timestamp |-> t, oracle |-> GoodAnswer] :
        a \in {0, 100, 111}, b \in {0, 100, 111}, t \in {2000, 4000}}

\* seconds between two observed chain times
TimeSteps == {2}

\* ledgers closed between two observed ledger sequence numbers
SeqSteps == {16}

(* ------------------------------- actions ------------------------------ *)

\* no call is waiting to be answered
NoCall == [updates |-> <<0, 0>>, timestamp |-> 0,
           oracle |-> [MXN |-> NoPriceData], err |-> "none",
           outcome |-> NotReached, prev |-> NoPrev]

\* nothing has been observed
NoObservation == [op |-> "none", asset |-> 0, timestamp |-> 0, result |-> NoPriceData]

Init ==
    /\ temp = << >>
    /\ last_timestamp = 0
    /\ config \in Configs
    /\ now = 0
    /\ seq = 0
    /\ calls = 0
    /\ lastCall = NoCall
    /\ lastAccepted = [a \in AssetSlots |-> [some |-> FALSE, val |-> 0, timestamp |-> 0]]
    /\ observed = NoObservation

\* one invocation of the update entry point, from call to result
UpdatePrices(updates, timestamp, oracle) ==
    /\ lastCall = NoCall
    /\ observed = NoObservation
    /\ LET r == contract_set_price(updates, timestamp, oracle) IN
       /\ temp' = Commit(r, temp, r.store)
       /\ last_timestamp' = Commit(r, last_timestamp, r.marker)
       /\ lastCall' = [updates |-> updates, timestamp |-> timestamp,
                       oracle |-> oracle, err |-> r.err,
                       outcome |-> r.outcome, prev |-> r.prev]
       /\ lastAccepted' =
             [a \in AssetSlots |->
                 IF r.err = "ok" /\ r.outcome[a] = "ok"
                 THEN [some |-> TRUE, val |-> updates[a + 1], timestamp |-> timestamp]
                 ELSE lastAccepted[a]]
    /\ calls' = calls + 1
    /\ UNCHANGED <<config, now, seq, observed>>

\* the caller takes the result of its call
Return ==
    /\ lastCall # NoCall \/ observed # NoObservation
    /\ lastCall' = NoCall
    /\ observed' = NoObservation
    /\ UNCHANGED <<temp, last_timestamp, config, now, seq, calls, lastAccepted>>

AdvanceTime(d) ==
    /\ lastCall = NoCall
    /\ observed = NoObservation
    /\ now + d <= MaxNow
    /\ now' = now + d
    /\ UNCHANGED <<temp, last_timestamp, config, seq, calls, lastCall, lastAccepted,
                   observed>>

\* ledgers close; records whose time-to-live lapsed are evicted
AdvanceLedger(d) ==
    /\ lastCall = NoCall
    /\ observed = NoObservation
    /\ seq + d <= MaxSeq
    /\ seq' = seq + d
    /\ temp' = [k \in {x \in DOMAIN temp : temp[x].live_until >= seq'} |-> temp[k]]
    /\ UNCHANGED <<last_timestamp, config, now, calls, lastCall, lastAccepted,
                   observed>>

\* a lastprice query
QueryLastPrice(asset) ==
    /\ lastCall = NoCall
    /\ observed = NoObservation
    /\ observed' = [op |-> "lastprice", asset |-> asset, timestamp |-> 0,
                    result |-> lastprice(asset)]
    /\ UNCHANGED <<temp, last_timestamp, config, now, seq, calls, lastCall,
                   lastAccepted>>

\* a price query at a timestamp in seconds
QueryPrice(asset, timestamp) ==
    /\ lastCall = NoCall
    /\ observed = NoObservation
    /\ observed' = [op |-> "price", asset |-> asset, timestamp |-> timestamp,
                    result |-> price(asset, timestamp)]
    /\ UNCHANGED <<temp, last_timestamp, config, now, seq, calls, lastCall,
                   lastAccepted>>

Next ==
    \/ /\ calls < MaxCalls
       /\ \E c \in CallInputs : UpdatePrices(c.updates, c.timestamp, c.oracle)
    \/ Return
    \/ \E d \in TimeSteps : AdvanceTime(d)
    \/ \E d \in SeqSteps : AdvanceLedger(d)

Spec == Init /\ [][Next]_vars

\* longer runs of updates: fewer yield rates, always a healthy oracle
NextSeq ==
    \/ /\ calls < MaxSeqCalls
       /\ \E c \in SeqCallInputs : UpdatePrices(c.updates, c.timestamp, c.oracle)
    \/ Return
    \/ \E d \in TimeSteps : AdvanceTime(d)
    \/ \E d \in SeqSteps : AdvanceLedger(d)

\* the longer runs start from the configuration of the tests
InitSeq ==
    /\ Init
    /\ config.max_yield_deviation = 10
    /\ config.fx_oracle_address

SpecSeq == InitSeq /\ [][NextSeq]_vars

(* ----------------- runs against the external FX oracle ---------------- *)

\* number of update calls explored in one behaviour of the oracle runs
MaxFxCalls == 2

\* a resolution in milliseconds that shares no factor with 1000, so that the
\* oracle's whole seconds can lie any number of milliseconds off an update
FxConfigs ==
    { [decimals |-> 2, resolution |-> 7, max_yield_deviation |-> 10,
       fx_oracle_address |-> TRUE, ledgers_to_live |-> 17]
       @@ Registered(TwoAssets),
      [decimals |-> 2, resolution |-> 7, max_yield_deviation |-> 10,
       fx_oracle_address |-> FALSE, ledgers_to_live |-> 17]
       @@ Registered(TwoAssets) }

\* chain time, in seconds, at which the oracle runs take place
FxStartTimes == {8}

\* update timestamps on the grid of resolution 7
FxTimestampInputs == {462, 987, 1015, 5985, 6986, 7000, 7014}

\* answers of the oracle: none, prices at several ages, a timestamp whose
\* conversion to milliseconds overflows, prices that are not positive, and
\* the smallest positive price
FxOracleAnswers ==
    {[MXN |-> NoPriceData]}
    \cup {[MXN |-> Some(PriceData(57, t))] : t \in {1, 6, 7, 66}}
    \cup {[MXN |-> Some(PriceData(p, t))] : p \in {0, 0 - 5}, t \in {1, 7}}
    \cup {[MXN |-> Some(PriceData(1, 7))]}

FxCallInputs ==
    {[updates |-> <<100, 100>>, timestamp |-> t, oracle |-> o] :
        t \in FxTimestampInputs, o \in FxOracleAnswers}

InitFx ==
    /\ temp = << >>
    /\ last_timestamp = 0
    /\ config \in FxConfigs
    /\ now \in FxStartTimes
    /\ seq = 0
    /\ calls = 0
    /\ lastCall = NoCall
    /\ lastAccepted = [a \in AssetSlots |-> [some |-> FALSE, val |-> 0, timestamp |-> 0]]
    /\ observed = NoObservation

NextFx ==
    \/ /\ calls < MaxFxCalls
       /\ \E c \in FxCallInputs : UpdatePrices(c.updates, c.timestamp, c.oracle)
    \/ Return

SpecFx == InitFx /\ [][NextFx]_vars

(* ------------------------- runs with queries -------------------------- *)

\* number of update calls explored in one behaviour of the query runs
MaxQueryCalls == 2

QueryCallInputs ==
    {[updates |-> u, timestamp |-> t, oracle |-> GoodAnswer] :
        u \in {<<100, 100>>, <<105, 0>>}, t \in {2000, 4000}}

\* timestamps, in seconds, at which prices are asked for
QueryTimestamps == {1, 2, 3, 4, 5}

InitQuery ==
    /\ Init
    /\ config.fx_oracle_address

NextQuery ==
    \/ /\ calls < MaxQueryCalls
       /\ \E c \in QueryCallInputs : UpdatePrices(c.updates, c.timestamp, c.oracle)
    \/ Return
    \/ \E d \in TimeSteps : AdvanceTime(d)
    \/ \E d \in SeqSteps : AdvanceLedger(d)
    \/ \E a \in AssetSlots : QueryLastPrice(a)
    \/ \E a \in AssetSlots, t \in QueryTimestamps : QueryPrice(a, t)

SpecQuery == InitQuery /\ [][NextQuery]_vars

(* ------------------- runs over the whole slot range ------------------- *)

\* number of update calls explored in one behaviour of the slot runs
MaxKeyCalls == 2

\* the slots updated in the slot runs: both ends of the range and the first
\* slot with bit 7 set
KeySlotInputs == {0, 128, MAX_ASSET_SLOT}

KeyTimestampInputs == {2000, 4000}

\* a batch for a contract with a slot for every u8 in which only one entry
\* is not zero: the entry point checks the timestamp, runs set_price for
\* that slot alone and moves the marker
update_slot(asset, fx, yield_rate, timestamp, oracle) ==
    IF is_invalid_timestamp(timestamp)
    THEN [err |-> "InvalidTimestamp", store |-> temp, marker |-> last_timestamp]
    ELSE LET r == set_price(temp, asset, fx, yield_rate, timestamp,
                            config.ledgers_to_live, oracle)
         IN  [err |-> r.err, store |-> r.store,
              marker |-> IF timestamp > get_last_timestamp
                         THEN timestamp ELSE get_last_timestamp]

UpdateSlot(asset, fx, yield_rate, timestamp, oracle) ==
    /\ lastCall = NoCall
    /\ observed = NoObservation
    /\ LET r == update_slot(asset, fx, yield_rate, timestamp, oracle) IN
       /\ temp' = Commit(r, temp, r.store)
       /\ last_timestamp' = Commit(r, last_timestamp, r.marker)
       /\ observed' = [op |-> "set_price", asset |-> asset, timestamp |-> timestamp,
                       result |-> [err |-> r.err, yield_rate |-> yield_rate,
                                   fx_price |-> oracle[fx].val.price]]
    /\ calls' = calls + 1
    /\ UNCHANGED <<config, now, seq, lastCall, lastAccepted>>

InitKeys ==
    /\ Init
    /\ config.max_yield_deviation = 10
    /\ config.fx_oracle_address

NextKeys ==
    \/ /\ calls < MaxKeyCalls
       /\ \E a \in KeySlotInputs, t \in KeyTimestampInputs :
             UpdateSlot(a, "MXN", 100, t, GoodAnswer)
    \/ Return
    \/ \E d \in TimeSteps : AdvanceTime(d)

SpecKeys == InitKeys /\ [][NextKeys]_vars

(* -------------------- runs of the fixed-point division ---------------- *)

\* dividends: not positive, small, with a product at either side of the
\* width (327 * 100 fits, 328 * 100 does not), and the largest value
DivDividends ==
    {0 - 1, 0, 1, 3, 57, 100, 200, I128_MAX \div 100, (I128_MAX \div 100) + 1,
     400, 10000, I128_MAX}

DivDivisors == {0 - 1, 0, 1, 7, 45, 57, 100, I128_MAX \div 100}

\* decimals: up to one more digit than the width holds
DivDecimals == {0, 1, 2, 3, MAX_SHIFT + 1}

\* one call of fixed_div_floor, with the outcome of one build
Divide(dividend, divisor, decimals) ==
    /\ lastCall = NoCall
    /\ observed = NoObservation
    /\ \E r \in fixed_div_floor(dividend, divisor, decimals) :
          observed' = [op |-> "fixed_div_floor", asset |-> 0, timestamp |-> 0,
                       result |-> [err |-> r.err, val |-> r.val,
                                   dividend |-> dividend, divisor |-> divisor,
                                   decimals |-> decimals]]
    /\ UNCHANGED <<temp, last_timestamp, config, now, seq, calls, lastCall,
                   lastAccepted>>

InitDiv ==
    /\ Init
    /\ config.max_yield_deviation = 10
    /\ config.fx_oracle_address

NextDiv ==
    \/ \E a \in DivDividends, b \in DivDivisors, d \in DivDecimals : Divide(a, b, d)
    \/ Return

SpecDiv == InitDiv /\ [][NextDiv]_vars

(* --------------- runs with cross-rate and average queries ------------- *)

\* number of update calls explored in one behaviour of these runs
MaxCrossCalls == 2

\* batches with both slots, with either slot left out, and with the largest
\* yield rate whose price fits the width and the first one whose price does not
CrossCallInputs ==
    {[updates |-> u, timestamp |-> t, oracle |-> GoodAnswer] :
        u \in {<<100, 100>>, <<105, 0>>, <<0, 105>>,
               <<I128_MAX \div 100, 100>>, <<(I128_MAX \div 100) + 1, 100>>},
        t \in {2000, 4000}}

\* the assets asked for: the two registered ones and an unknown one
CrossAssets == AssetSlots \cup {NumAssets}

\* pairs of a base and a quote asset: registered, one unknown, both unknown
CrossPairs == {<<0, 1>>, <<1, 0>>, <<NumAssets, 1>>, <<1, NumAssets>>,
               <<NumAssets, NumAssets + 1>>}

\* timestamps, in seconds, at which cross prices are asked for
CrossTimestamps == {3, 4}

\* numbers of periods averaged over
TwapRecords == {1, 2}

\* an x_last_price query
QueryXLastPrice(base_asset, quote_asset) ==
    /\ lastCall = NoCall
    /\ observed = NoObservation
    /\ \E r \in x_last_price(base_asset, quote_asset) :
          observed' = [op |-> "x_last_price", asset |-> base_asset, timestamp |-> 0,
                       result |-> [err |-> r.err, val |-> r.val,
                                   quote |-> quote_asset]]
    /\ UNCHANGED <<temp, last_timestamp, config, now, seq, calls, lastCall,
                   lastAccepted>>

\* an x_price query at a timestamp in seconds
QueryXPrice(base_asset, quote_asset, timestamp) ==
    /\ lastCall = NoCall
    /\ observed = NoObservation
    /\ \E r \in x_price(base_asset, quote_asset, timestamp) :
          observed' = [op |-> "x_price", asset |-> base_asset,
                       timestamp |-> timestamp,
                       result |-> [err |-> r.err, val |-> r.val,
                                   quote |-> quote_asset]]
    /\ UNCHANGED <<temp, last_timestamp, config, now, seq, calls, lastCall,
                   lastAccepted>>

\* a twap query
QueryTwap(asset, records) ==
    /\ lastCall = NoCall
    /\ observed = NoObservation
    /\ \E r \in twap(asset, records) :
          observed' = [op |-> "twap", asset |-> asset, timestamp |-> 0,
                       result |-> [err |-> r.err, val |-> r.val,
                                   records |-> records]]
    /\ UNCHANGED <<temp, last_timestamp, config, now, seq, calls, lastCall,
                   lastAccepted>>

\* an x_twap query
QueryXTwap(base_asset, quote_asset, records) ==
    /\ lastCall = NoCall
    /\ observed = NoObservation
    /\ \E r \in x_twap(base_asset, quote_asset, records) :
          observed' = [op |-> "x_twap", asset |-> base_asset, timestamp |-> 0,
                       result |-> [err |-> r.err, val |-> r.val,
                                   quote |-> quote_asset, records |-> records]]
    /\ UNCHANGED <<temp, last_timestamp, config, now, seq, calls, lastCall,
                   lastAccepted>>

InitCross ==
    /\ Init
    /\ config.fx_oracle_address

NextCross ==
    \/ /\ calls < MaxCrossCalls
       /\ \E c \in CrossCallInputs : UpdatePrices(c.updates, c.timestamp, c.oracle)
    \/ Return
    \/ \E d \in TimeSteps : AdvanceTime(d)
    \/ \E d \in SeqSteps : AdvanceLedger(d)
    \/ \E a \in CrossAssets : QueryLastPrice(a)
    \/ \E a \in CrossAssets, t \in CrossTimestamps : QueryPrice(a, t)
    \/ \E pair \in CrossPairs : QueryXLastPrice(pair[1], pair[2])
    \/ \E pair \in CrossPairs, t \in CrossTimestamps :
          QueryXPrice(pair[1], pair[2], t)
    \/ \E a \in CrossAssets, n \in TwapRecords : QueryTwap(a, n)
    \/ \E pair \in CrossPairs, n \in TwapRecords : QueryXTwap(pair[1], pair[2], n)

SpecCross == InitCross /\ [][NextCross]_vars

(* ------------------- runs of the yield validation --------------------- *)

\* number of update calls explored in one behaviour of the validation runs
MaxYieldCalls == 2

\* the maximum deviation is left unset, set to 0 or set to 10 percent
YieldConfigs ==
    { [decimals |-> 2, resolution |-> 2000, max_yield_deviation |-> d,
       fx_oracle_address |-> TRUE, ledgers_to_live |-> 17]
       @@ Registered(TwoAssets) : d \in {UNSET, 0, 10} }

\* batches for slot 0 alone, for slot 1 alone and for both slots: rises of
\* less than one percent, of one percent and of more than ten percent, small
\* and large drops, and differences that do not fit once multiplied by 100
YieldBatches ==
    {<<a, 0>> : a \in {100, 198, 200, 201, 202}}
    \cup {<<0, b>> : b \in {100, 105, 110, 117, 500}}
    \cup {<<100, 200>>, <<200, 100>>, <<110, 110>>}

YieldCallInputs ==
    {[updates |-> u, timestamp |-> t, oracle |-> GoodAnswer] :
        u \in YieldBatches, t \in {2000, 4000}}

InitYield ==
    /\ temp = << >>
    /\ last_timestamp = 0
    /\ config \in YieldConfigs
    /\ now = 0
    /\ seq = 0
    /\ calls = 0
    /\ lastCall = NoCall
    /\ lastAccepted = [a \in AssetSlots |-> [some |-> FALSE, val |-> 0, timestamp |-> 0]]
    /\ observed = NoObservation

NextYield ==
    \/ /\ calls < MaxYieldCalls
       /\ \E c \in YieldCallInputs : UpdatePrices(c.updates, c.timestamp, c.oracle)
    \/ Return
    \/ \E d \in TimeSteps : AdvanceTime(d)

SpecYield == InitYield /\ [][NextYield]_vars

(* ------------------ runs over the order of the checks ----------------- *)

\* number of update calls explored in one behaviour of the order runs
MaxOrderCalls == 2

\* update timestamps on the grid of resolution 7, both less than two
\* resolutions before the chain time of the oracle runs
OrderTimestampInputs == {7987, 7994}

\* answers of the oracle: none, a fresh price, a price a second old, the same
\* two with a price of 0, a timestamp whose conversion to milliseconds
\* overflows with either price, and a fresh price too large to be multiplied
OrderOracleAnswers ==
    {[MXN |-> NoPriceData]}
    \cup {[MXN |-> Some(PriceData(p, t))] : p \in {0, 57}, t \in {7, 8, 66}}
    \cup {[MXN |-> Some(PriceData(400, 8))]}

\* a rate below 1.0, rates that fall or rise too far after one another, a
\* rate for the base currency too large to be multiplied, and a full batch
OrderBatches == {<<0, 99>>, <<0, 100>>, <<0, 112>>, <<400, 0>>, <<100, 100>>}

OrderCallInputs ==
    {[updates |-> u, timestamp |-> t, oracle |-> o] :
        u \in OrderBatches, t \in OrderTimestampInputs, o \in OrderOracleAnswers}

NextOrder ==
    \/ /\ calls < MaxOrderCalls
       /\ \E c \in OrderCallInputs : UpdatePrices(c.updates, c.timestamp, c.oracle)
    \/ Return

SpecOrder == InitFx /\ [][NextOrder]_vars

(* ------------------ runs over the length of a batch ------------------- *)

\* number of update calls explored in one behaviour of the length runs
MaxLengthCalls == 2

\* contracts with no asset, one asset and two assets registered
LengthConfigs ==
    { [decimals |-> 2, resolution |-> 2000, max_yield_deviation |-> 10,
       fx_oracle_address |-> TRUE, ledgers_to_live |-> 17]
       @@ Registered(registered) : registered \in {<< >>, <<"USD">>, TwoAssets} }

\* batches of one, two and three entries
LengthBatches == {<<100>>, <<100, 100>>, <<100, 100, 100>>}

LengthCallInputs ==
    {[updates |-> u, timestamp |-> t, oracle |-> GoodAnswer] :
        u \in LengthBatches, t \in {2000, 4000}}

InitLength ==
    /\ temp = << >>
    /\ last_timestamp = 0
    /\ config \in LengthConfigs
    /\ now = 0
    /\ seq = 0
    /\ calls = 0
    /\ lastCall = NoCall
    /\ lastAccepted = [a \in AssetSlots |-> [some |-> FALSE, val |-> 0, timestamp |-> 0]]
    /\ observed = NoObservation

NextLength ==
    \/ /\ calls < MaxLengthCalls
       /\ \E c \in LengthCallInputs : UpdatePrices(c.updates, c.timestamp, c.oracle)
    \/ Return
    \/ \E d \in TimeSteps : AdvanceTime(d)

SpecLength == InitLength /\ [][NextLength]_vars

(* -------------------- administration of the contract ----------------- *)

\* ADMIN_KEY of the instance storage, if the contract was configured
get_admin == config.admin

\* address.require_auth(): the invocation must carry the authorization of
\* the address; auths are the addresses that authorized the invocation
require_auth(address, auths) == IF address \in auths THEN Ok(0) ELSE Fail("auth")

\* variant: the authorization of any address is enough
panic_if_not_admin_any_address(auths) ==
    IF ~get_admin.some THEN Fail("Unauthorized")
    ELSE IF auths # {} THEN Ok(0) ELSE Fail("auth")

panic_if_not_admin(auths) ==
    IF ~get_admin.some THEN Fail("Unauthorized")
    ELSE require_auth(get_admin.val, auths)

\* set_period: the admin check, then the retention period is stored
contract_set_period(auths, period) ==
    LET auth == panic_if_not_admin(auths)
    IN  IF auth.err # "ok" THEN [err |-> auth.err, config |-> config]
        ELSE [err |-> "ok", config |-> [config EXCEPT !.period = period]]

\* variant: the registry may grow to one asset more
asset_limit_exceeded_above(count) == count > MAX_ASSET_SLOT + 1

\* the registry has no room for that many assets
asset_limit_exceeded(count) == count >= MAX_ASSET_SLOT + 1

\* the members of a sequence
Range(seq_) == {seq_[i] : i \in 1 .. Len(seq_)}

\* the loop of add_assets over a batch: an asset that has an index already,
\* from an earlier batch or from an earlier entry of this one, ends the
\* call; otherwise the i-th entry gets the index len + i - 1 and joins the
\* registry with its FX symbol
add_assets_loop(storage, assets, asset_fxs) ==
    IF \/ Range(assets) \cap DOMAIN storage.index # {}
       \/ Cardinality(Range(assets)) # Len(assets)
    THEN [err |-> "AssetAlreadyExists", config |-> storage]
    ELSE [err |-> "ok",
          config |->
             [storage EXCEPT
                 !.index = [asset \in DOMAIN storage.index \cup Range(assets) |->
                              IF asset \in DOMAIN storage.index
                              THEN storage.index[asset]
                              ELSE Len(storage.assets)
                                   + (CHOOSE i \in 1 .. Len(assets) : assets[i] = asset)
                                   - 1],
                 !.assets = storage.assets \o assets,
                 !.fxs = storage.fxs \o asset_fxs]]

\* add_assets: the admin check, the two lengths, the loop, then the limit
contract_add_assets(auths, assets, asset_fxs) ==
    LET auth == panic_if_not_admin(auths)
        r == add_assets_loop(config, assets, asset_fxs)
    IN  IF auth.err # "ok" THEN [err |-> auth.err, config |-> config]
        ELSE IF Len(assets) # Len(asset_fxs)
        THEN [err |-> "FxArrayLengthMismatch", config |-> config]
        ELSE IF r.err # "ok" THEN r
        ELSE IF asset_limit_exceeded(Len(r.config.assets))
        THEN [err |-> "AssetLimitExceeded", config |-> r.config]
        ELSE r

\* number of administrative calls explored in one behaviour
MaxAdminCalls == 2

\* the addresses that authorize invocations
Addresses == {"admin", "account"}

\* a contract before and after config(): no admin, or the admin of the
\* tests and no asset yet
AdminConfigs ==
    { ([decimals |-> 2, resolution |-> 2000, max_yield_deviation |-> 10,
        fx_oracle_address |-> TRUE, ledgers_to_live |-> 17,
        admin |-> a, period |-> 0]
       @@ Registered(<< >>)) : a \in {None, Some("admin")} }

\* retention periods asked for
PeriodInputs == {100, 200}

\* count assets named start, start + 1, ...
generate_assets(count, start_index) == [i \in 1 .. count |-> start_index + i - 1]

\* count FX symbols
generate_fxs(count) == [i \in 1 .. count |-> "USD"]

\* batches of assets and FX symbols: small ones, one that fills an empty
\* registry to the last slot, some that would go beyond it, some that
\* overlap a batch added before, one that names an asset twice, and one
\* with fewer FX symbols than assets
AddAssetsInputs ==
    {[assets |-> generate_assets(b[1], b[2]), fxs |-> generate_fxs(b[1])] :
        b \in {<<2, 0>>, <<1, 2>>, <<2, 1>>, <<MAX_ASSET_SLOT, 0>>,
               <<MAX_ASSET_SLOT + 1, 0>>, <<MAX_ASSET_SLOT - 1, 300>>}}
    \cup {[assets |-> <<7, 7>>, fxs |-> generate_fxs(2)],
          [assets |-> generate_assets(3, 500), fxs |-> generate_fxs(2)]}

\* one invocation of set_period
SetPeriod(auths, period) ==
    /\ lastCall = NoCall
    /\ observed = NoObservation
    /\ LET r == contract_set_period(auths, period) IN
       /\ config' = r.config
       /\ observed' = [op |-> "set_period", asset |-> 0, timestamp |-> 0,
                       result |-> [err |-> r.err, auths |-> auths, period |-> period]]
    /\ calls' = calls + 1
    /\ UNCHANGED <<temp, last_timestamp, now, seq, lastCall, lastAccepted>>

\* one invocation of add_assets; a panic leaves the instance storage as it was
AddAssets(auths, assets, asset_fxs) ==
    /\ lastCall = NoCall
    /\ observed = NoObservation
    /\ LET r == contract_add_assets(auths, assets, asset_fxs) IN
       /\ config' = Commit(r, config, r.config)
       /\ observed' = [op |-> "add_assets", asset |-> 0, timestamp |-> 0,
                       result |-> [err |-> r.err, auths |-> auths,
                                   assets |-> assets, fxs |-> asset_fxs]]
    /\ lastCall' = NoCall'
    /\ lastAccepted' = [a \in AssetSlots' |->
                           IF a \in AssetSlots THEN lastAccepted[a]
                           ELSE [some |-> FALSE, val |-> 0, timestamp |-> 0]]
    /\ calls' = calls + 1
    /\ UNCHANGED <<temp, last_timestamp, now, seq>>

InitAdmin ==
    /\ temp = << >>
    /\ last_timestamp = 0
    /\ config \in AdminConfigs
    /\ now = 0
    /\ seq = 0
    /\ calls = 0
    /\ lastCall = NoCall
    /\ lastAccepted = [a \in AssetSlots |-> [some |-> FALSE, val |-> 0, timestamp |-> 0]]
    /\ observed = NoObservation

NextAdmin ==
    \/ /\ calls < MaxAdminCalls
       /\ \E auths \in SUBSET Addresses, period \in PeriodInputs :
             SetPeriod(auths, period)
    \/ /\ calls < MaxAdminCalls
       /\ \E auths \in {{"admin"}, {"account"}}, b \in AddAssetsInputs :
             AddAssets(auths, b.assets, b.fxs)
    \/ Return

SpecAdmin == InitAdmin /\ [][NextAdmin]_vars

(* ------------------------------ properties ---------------------------- *)

\* 1.0 in the configured fixed-point scale
Scale == Pow10(config.decimals)

\* a step that is one update call
IsCall == lastCall = NoCall /\ lastCall' # NoCall

\* set_price ran for the slot (the entry was not zero and no earlier slot failed)
Ran(call, a) == call.outcome[a] \notin {"not_reached", "skipped"}

YieldErrors == {"InvalidYieldRate", "YieldRateDecreased", "YieldRateDeviationExceeded"}

FxErrors == {"FxOracleUnavailable", "StaleFxPrice", "FxOracleTimestampDrift",
             "InvalidFxPrice"}

\* the yield record a slot is compared with, read from a store
Baseline(store, a) ==
    IF obtain_record_timestamp > 0
    THEN get_last_yield_rate(store, a, obtain_record_timestamp)
    ELSE None

RisePct(prev, next) == ((next - prev) * 100) \div prev

DropPct(prev, next) == ((prev - next) * 100) \div prev

\* C1: with a previous rate prev and a new rate next >= prev (next >= 1.0, no
\* overflow), the validation rejects with YieldRateDeviationExceeded exactly
\* when floor((next - prev) * 100 / prev) > max_yield_deviation_percent, and
\* raises no yield error otherwise; a rise of exactly the maximum is accepted.
C1_RiseAcceptedIffWithinDeviation ==
    [][IsCall =>
        \A a \in AssetSlots :
            LET next == lastCall'.updates[a + 1]
                base == Baseline(temp, a)
                out == lastCall'.outcome[a]
            IN  (/\ Ran(lastCall', a)
                 /\ base.some
                 /\ next >= base.val
                 /\ next >= Scale
                 /\ (next - base.val) * 100 <= I128_MAX)
                => IF RisePct(base.val, next) <= config.max_yield_deviation
                   THEN out \notin YieldErrors /\ out # "IntegerOverflow"
                   ELSE out = "YieldRateDeviationExceeded"]_vars

\* C1 witness: a rise of exactly the configured maximum was accepted
C1_Witness ==
    \E a \in AssetSlots :
        /\ lastCall.prev[a].some
        /\ lastCall.updates[a + 1] > lastCall.prev[a].val
        /\ config.max_yield_deviation > 0
        /\ RisePct(lastCall.prev[a].val, lastCall.updates[a + 1])
              = config.max_yield_deviation
        /\ lastCall.outcome[a] = "ok"
        /\ get_last_yield_rate(temp, a, lastCall.timestamp)
              = Some(lastCall.updates[a + 1])

\* C2: with a previous rate prev and a new rate 1.0 <= next < prev, the update
\* is rejected with YieldRateDecreased exactly when
\* floor((prev - next) * 100 / prev) > 1, whatever the configured deviation.
C2_DropAcceptedIffWithinOnePercent ==
    [][IsCall =>
        \A a \in AssetSlots :
            LET next == lastCall'.updates[a + 1]
                base == Baseline(temp, a)
                out == lastCall'.outcome[a]
            IN  (/\ Ran(lastCall', a)
                 /\ base.some
                 /\ next < base.val
                 /\ next >= Scale
                 /\ (base.val - next) * 100 <= I128_MAX)
                => IF DropPct(base.val, next) <= 1
                   THEN out \notin YieldErrors /\ out # "IntegerOverflow"
                   ELSE out = "YieldRateDecreased"]_vars

\* C2 witness: a drop of 1% was accepted where no rise at all is allowed
C2_Witness ==
    \E a \in AssetSlots :
        /\ lastCall.prev[a].some
        /\ lastCall.updates[a + 1] < lastCall.prev[a].val
        /\ DropPct(lastCall.prev[a].val, lastCall.updates[a + 1]) = 1
        /\ config.max_yield_deviation = 0
        /\ lastCall.outcome[a] = "ok"
        /\ get_last_yield_rate(temp, a, lastCall.timestamp)
              = Some(lastCall.updates[a + 1])

\* C3: every accepted yield rate neither drops by more than 1% nor rises by
\* more than max_yield_deviation_percent relative to the yield rate of the
\* asset's most recently accepted update.  It is stated for the case the claim
\* singles out: the continuity resolver reports usable history and the yield
\* record of that most recent update is still stored.
C3_WithinBoundsOfLastAccepted ==
    [][IsCall =>
        \A a \in AssetSlots :
            LET next == lastCall'.updates[a + 1]
                last == lastAccepted[a]
            IN  (/\ lastCall'.err = "ok"
                 /\ lastCall'.outcome[a] = "ok"
                 /\ last.some
                 /\ obtain_record_timestamp > 0
                 /\ get_last_yield_rate(temp, a, last.timestamp) = Some(last.val))
                => /\ next < last.val => DropPct(last.val, next) <= 1
                   /\ next >= last.val
                        => RisePct(last.val, next) <= config.max_yield_deviation]_vars

\* C4: set_price fails with InvalidYieldRate whenever yield_rate < 10^decimals,
\* never for a yield rate of 10^decimals or more, and the failure leaves the
\* yield record and the price record of (timestamp, asset) as they were.
C4_BelowOneRejected ==
    [][IsCall =>
        \A a \in AssetSlots :
            LET next == lastCall'.updates[a + 1]
                ts == lastCall'.timestamp
                out == lastCall'.outcome[a]
            IN  Ran(lastCall', a)
                => /\ (out = "InvalidYieldRate") <=> (next < Scale)
                   /\ out = "InvalidYieldRate"
                        => /\ get_last_yield_rate(temp', a, ts)
                                 = get_last_yield_rate(temp, a, ts)
                           /\ get_price(temp', a, ts) = get_price(temp, a, ts)]_vars

\* C4 witness: a rate just below 1.0 was rejected and nothing is stored for it
C4_Witness ==
    \E a \in AssetSlots :
        /\ lastCall.outcome[a] = "InvalidYieldRate"
        /\ lastCall.updates[a + 1] = Scale - 1
        /\ ~get_last_yield_rate(temp, a, lastCall.timestamp).some
        /\ ~get_price(temp, a, lastCall.timestamp).some

\* C5: when the asset has no yield record at the timestamp of the continuity
\* resolver (or the resolver returns 0), any yield_rate >= 10^decimals passes
\* the validation: no yield error is raised, whatever the deviation bound.
C5_ColdStartAcceptsAny ==
    [][IsCall =>
        \A a \in AssetSlots :
            LET next == lastCall'.updates[a + 1]
                base == Baseline(temp, a)
            IN  (Ran(lastCall', a) /\ ~base.some /\ next >= Scale)
                => lastCall'.outcome[a] \notin YieldErrors]_vars

\* C5 witness: a rate far above an older, still stored yield record of the
\* asset was accepted because the resolver reported no usable history
C5_Witness ==
    \E a \in AssetSlots, t \in TimestampInputs :
        /\ t < lastCall.timestamp
        /\ get_last_yield_rate(temp, a, t).some
        /\ ~lastCall.prev[a].some
        /\ lastCall.outcome[a] = "ok"
        /\ lastCall.err = "ok"
        /\ RisePct(get_last_yield_rate(temp, a, t).val, lastCall.updates[a + 1])
              > config.max_yield_deviation

\* C6: an update call that fails, at any asset and at any stage, leaves the
\* record store and the last-timestamp marker exactly as they were; the yield
\* record written before the FX rate is resolved does not survive.
C6_FailureLeavesStateUnchanged ==
    [][(IsCall /\ lastCall'.err # "ok")
        => /\ temp' = temp
           /\ last_timestamp' = last_timestamp
           /\ config' = config]_vars

\* C6 witness: slot 0 had been written when the FX resolution of slot 1
\* failed, and nothing of the call is stored
C6_Witness ==
    /\ lastCall.outcome[0] = "ok"
    /\ lastCall.outcome[1] = "StaleFxPrice"
    /\ lastCall.err = "StaleFxPrice"
    /\ ~get_last_yield_rate(temp, 0, lastCall.timestamp).some
    /\ ~get_price(temp, 0, lastCall.timestamp).some
    /\ ~get_last_yield_rate(temp, 1, lastCall.timestamp).some
    /\ last_timestamp # lastCall.timestamp

\* the FX rate a slot is priced with: 1.0 for the base currency, otherwise
\* the price the oracle answered
FxRateOf(call, a) ==
    IF fxs[a + 1] = "USD" THEN Scale ELSE call.oracle[fxs[a + 1]].val.price

\* C7: after a successful update with yield rate y and FX rate f, the price
\* record at (timestamp, asset) is floor(f * y / 10^decimals).
C7_PriceIsFloorOfProduct ==
    [][(IsCall /\ lastCall'.err = "ok")
        => \A a \in AssetSlots :
              lastCall'.outcome[a] = "ok"
              => get_price(temp', a, lastCall'.timestamp)
                    = Some((FxRateOf(lastCall', a) * lastCall'.updates[a + 1])
                              \div Scale)]_vars

\* C7 witness: 1.10 at an FX rate of 0.57 is stored as 0.62 (0.627 floored)
C7_Witness ==
    /\ lastCall.err = "ok"
    /\ lastCall.outcome[1] = "ok"
    /\ lastCall.updates[2] = 110
    /\ FxRateOf(lastCall, 1) = 57
    /\ get_price(temp, 1, lastCall.timestamp) = Some(62)

\* C8: for an asset priced in the base currency, the price record stored by a
\* successful update with yield rate r is r itself.
C8_BaseCurrencyPriceIsYield ==
    [][(IsCall /\ lastCall'.err = "ok")
        => \A a \in AssetSlots :
              (lastCall'.outcome[a] = "ok" /\ fxs[a + 1] = "USD")
              => get_price(temp', a, lastCall'.timestamp)
                    = Some(lastCall'.updates[a + 1])]_vars

\* C8 witness: a base-currency asset updated with 1.08 has the price 1.08
C8_Witness ==
    /\ lastCall.err = "ok"
    /\ lastCall.outcome[0] = "ok"
    /\ fxs[1] = "USD"
    /\ lastCall.updates[1] = 108
    /\ get_price(temp, 0, lastCall.timestamp) = Some(108)

\* the slot passed the yield validation and the FX resolution
ReachedCompositor(call, a) ==
    /\ Ran(call, a)
    /\ call.outcome[a] \notin YieldErrors
    /\ call.outcome[a] \notin FxErrors
    /\ fxs[a + 1] # "USD" => call.oracle[fxs[a + 1]].some

\* C9: when fx_rate * yield_rate does not fit the signed integer width, the
\* update fails with IntegerOverflow and the store is left as it was; an
\* update succeeds only with a product that fits.
C9_ProductOverflowFails ==
    [][IsCall =>
        \A a \in AssetSlots :
            LET product == FxRateOf(lastCall', a) * lastCall'.updates[a + 1]
            IN  /\ (/\ ReachedCompositor(lastCall', a)
                    /\ product > I128_MAX)
                   => /\ lastCall'.outcome[a] = "IntegerOverflow"
                      /\ temp' = temp
                /\ lastCall'.outcome[a] = "ok" => product <= I128_MAX]_vars

\* C9 witness: a first update whose product with the FX rate is too large
\* failed with IntegerOverflow and left no price record
C9_Witness ==
    \E a \in AssetSlots :
        /\ lastCall.outcome[a] = "IntegerOverflow"
        /\ ~lastCall.prev[a].some
        /\ FxRateOf(lastCall, a) * lastCall.updates[a + 1] > I128_MAX
        /\ ~get_price(temp, a, lastCall.timestamp).some

\* C10: for a symbol other than the base currency, the FX resolution fails
\* with StaleFxPrice when the oracle returns no price or reports a zero
\* timestamp.
C10_NoPriceOrZeroTimestampIsStale ==
    [][IsCall =>
        \A a \in AssetSlots :
            LET answer == lastCall'.oracle[fxs[a + 1]]
            IN  (/\ fxs[a + 1] # "USD"
                 /\ Ran(lastCall', a)
                 /\ lastCall'.outcome[a] \notin YieldErrors
                 /\ config.fx_oracle_address
                 /\ (~answer.some \/ answer.val.timestamp = 0))
                => lastCall'.outcome[a] = "StaleFxPrice"]_vars

\* the oracle was asked about the slot: it is not priced in the base
\* currency, its yield rate passed the validation, an oracle is configured
AskedOracle(call, a) ==
    /\ fxs[a + 1] # "USD"
    /\ Ran(call, a)
    /\ call.outcome[a] \notin YieldErrors
    /\ config.fx_oracle_address

\* milliseconds between the oracle's timestamp and the update's timestamp
DriftOf(call, a) ==
    abs_diff(call.oracle[fxs[a + 1]].val.timestamp * MS_PER_SEC, call.timestamp)

\* C11: for a symbol other than the base currency whose oracle price is
\* present and whose timestamp converts to milliseconds, the update fails
\* with FxOracleTimestampDrift exactly when
\* |oracle_timestamp_seconds * 1000 - update_timestamp_ms| > 2 * resolution,
\* on the first update as on later ones, whatever the marker and chain time.
C11_DriftIffBeyondTwoResolutions ==
    [][IsCall =>
        \A a \in AssetSlots :
            LET answer == lastCall'.oracle[fxs[a + 1]]
            IN  (/\ AskedOracle(lastCall', a)
                 /\ answer.some
                 /\ answer.val.timestamp * MS_PER_SEC <= U64_MAX)
                => ((lastCall'.outcome[a] = "FxOracleTimestampDrift")
                      <=> (DriftOf(lastCall', a) > 2 * config.resolution))]_vars

\* C11 witness: a first update whose oracle timestamp lies exactly two
\* resolutions away is accepted, far from the chain time
C11_Witness ==
    /\ calls = 1
    /\ AskedOracle(lastCall, 1)
    /\ DriftOf(lastCall, 1) = 2 * config.resolution
    /\ lastCall.outcome[1] = "ok"
    /\ get_price(temp, 1, lastCall.timestamp).some
    /\ abs_diff(now * MS_PER_SEC, lastCall.timestamp) > 2 * config.resolution

C13_TimestampConversionOverflowFails ==
    [][IsCall =>
        \A a \in AssetSlots :
            LET answer == lastCall'.oracle[fxs[a + 1]]
            IN  (/\ AskedOracle(lastCall', a)
                 /\ answer.some
                 /\ answer.val.timestamp * MS_PER_SEC > U64_MAX)
                => lastCall'.outcome[a] = "IntegerOverflow"]_vars

\* C13 witness: the wrapped timestamp would have been within the drift bound
\* of the update, and the update failed with IntegerOverflow
C13_Witness ==
    LET answer == lastCall.oracle[fxs[2]]
    IN  /\ AskedOracle(lastCall, 1)
        /\ answer.some
        /\ answer.val.timestamp * MS_PER_SEC > U64_MAX
        /\ abs_diff((answer.val.timestamp * MS_PER_SEC) % (U64_MAX + 1),
                    lastCall.timestamp) <= 2 * config.resolution
        /\ lastCall.outcome[1] = "IntegerOverflow"

\* C14: a slot priced in the base currency is priced at 10^decimals whatever
\* the oracle answers and whether or not an oracle address is configured; a
\* slot priced in another symbol fails with FxOracleUnavailable when no
\* oracle address is configured.
C14_BaseCurrencyNeedsNoOracle ==
    [][IsCall =>
        \A a \in AssetSlots :
            (Ran(lastCall', a) /\ lastCall'.outcome[a] \notin YieldErrors)
            => IF fxs[a + 1] = "USD"
               THEN /\ lastCall'.outcome[a] = "ok"
                    /\ lastCall'.err = "ok"
                        => get_price(temp', a, lastCall'.timestamp)
                              = Some((Scale * lastCall'.updates[a + 1]) \div Scale)
               ELSE ~config.fx_oracle_address
                    => lastCall'.outcome[a] = "FxOracleUnavailable"]_vars

\* C14 witness: without an oracle address the base-currency slot was priced
\* and the next slot failed with FxOracleUnavailable
C14_Witness ==
    /\ ~config.fx_oracle_address
    /\ fxs[1] = "USD"
    /\ lastCall.outcome[0] = "ok"
    /\ lastCall.outcome[1] = "FxOracleUnavailable"
    /\ ~lastCall.oracle[fxs[2]].some

\* chain time in milliseconds
ChainTimeMs == now * MS_PER_SEC

\* C15: the continuity resolver returns the marker m exactly when m # 0,
\* m <= chain_time_ms and chain_time_ms - m < 2 * resolution, and 0 in every
\* other case; a gap of exactly 2 * resolution gives 0.
C15_ResolverReturnsRecentMarker ==
    /\ obtain_record_timestamp \in {0, last_timestamp}
    /\ (obtain_record_timestamp = last_timestamp)
          <=> \/ last_timestamp = 0
              \/ /\ last_timestamp # 0
                 /\ last_timestamp <= ChainTimeMs
                 /\ ChainTimeMs - last_timestamp < 2 * config.resolution
    /\ (last_timestamp # 0 /\ ChainTimeMs - last_timestamp = 2 * config.resolution)
          => obtain_record_timestamp = 0

\* C15 witness: with the marker exactly two resolutions behind the chain time
\* the resolver gives 0, and a last-price query finds nothing although the
\* price record at the marker is still stored
C15_Witness ==
    /\ last_timestamp # 0
    /\ ChainTimeMs - last_timestamp = 2 * config.resolution
    /\ obtain_record_timestamp = 0
    /\ observed.op = "lastprice"
    /\ ~observed.result.some
    /\ get_price(temp, observed.asset, last_timestamp).some

\* the price record stored for an asset and a timestamp, as the queries
\* report it: the price and the timestamp in seconds
StoredPriceData(a, t) ==
    LET key == encode_record_key(t, a)
    IN  IF key \in DOMAIN temp /\ temp[key].live_until >= seq
        THEN Some(PriceData(temp[key].val, t \div MS_PER_SEC))
        ELSE NoPriceData

\* C16: a last-price query reports no data when there was no update or the
\* marker is 2 * resolution or more behind the chain time; otherwise it
\* reports the price stored at the marker with the marker's timestamp; what
\* it reports is never 2 * resolution or more behind the chain time.
C16_LastPriceIsNeverStale ==
    observed.op = "lastprice"
    => LET r == observed.result
       IN  /\ r = IF \/ last_timestamp = 0
                     \/ ChainTimeMs - last_timestamp >= 2 * config.resolution
                  THEN NoPriceData
                  ELSE StoredPriceData(observed.asset, last_timestamp)
           /\ r.some
                => /\ r.val.timestamp * MS_PER_SEC = last_timestamp
                   /\ ChainTimeMs - r.val.timestamp * MS_PER_SEC
                         < 2 * config.resolution

\* C16 witness: a last-price query answered with the price of the most
\* recent update while an older record of the asset is stored too
C16_Witness ==
    /\ observed.op = "lastprice"
    /\ observed.result.some
    /\ observed.result.val.timestamp * MS_PER_SEC = last_timestamp
    /\ \E t \in TimestampInputs :
          /\ t < last_timestamp
          /\ get_price(temp, observed.asset, t).some
          /\ get_price(temp, observed.asset, t).val # observed.result.val.price

\* the start of the resolution bucket that holds a timestamp given in seconds
BucketOf(timestamp) ==
    timestamp * MS_PER_SEC - ((timestamp * MS_PER_SEC) % config.resolution)

\* C20: a price query at a timestamp reports the price record of the bucket
\* holding the timestamp, with the bucket's timestamp, and no data when the
\* bucket has no unexpired record; the price is the one the asset's update at
\* that bucket composited.
C20_PriceQueryReadsBucket ==
    observed.op = "price"
    => LET a == observed.asset
           bucket == BucketOf(observed.timestamp)
           r == observed.result
       IN  /\ r = StoredPriceData(a, bucket)
           /\ r.some => r.val.timestamp * MS_PER_SEC = bucket
           /\ (r.some /\ lastAccepted[a].some /\ lastAccepted[a].timestamp = bucket)
                => r.val.price
                     = ((IF fxs[a + 1] = "USD" THEN Scale
                         ELSE GoodAnswer[fxs[a + 1]].val.price)
                        * lastAccepted[a].val) \div Scale

\* C20 witness: a query inside a bucket, not at its start, answered with the
\* record of the bucket while a newer record of the asset exists
C20_Witness ==
    /\ observed.op = "price"
    /\ observed.timestamp * MS_PER_SEC # BucketOf(observed.timestamp)
    /\ observed.result.some
    /\ observed.result.val.timestamp * MS_PER_SEC = BucketOf(observed.timestamp)
    /\ observed.asset = 1
    /\ observed.result.val.price = 57
    /\ get_price(temp, 1, BucketOf(observed.timestamp) + config.resolution).some

\* C17: the marker is 0 before any update; a successful update at a
\* timestamp newer than the marker sets the marker to it, any other
\* successful update leaves it; the marker never decreases.
C17_MarkerNeverDecreases ==
    [][/\ calls = 0 => last_timestamp = 0
       /\ last_timestamp' >= last_timestamp
       /\ (IsCall /\ lastCall'.err = "ok")
            => last_timestamp' = IF lastCall'.timestamp > last_timestamp
                                 THEN lastCall'.timestamp
                                 ELSE last_timestamp]_vars

\* C17 witness: an update older than the marker succeeded and wrote its
\* records, and the marker stayed at the newer timestamp
C17_Witness ==
    /\ lastCall.err = "ok"
    /\ lastCall.timestamp > 0
    /\ lastCall.timestamp < last_timestamp
    /\ \E a \in AssetSlots :
          /\ lastCall.outcome[a] = "ok"
          /\ get_price(temp, a, lastCall.timestamp).some

\* the timestamp packed into a record key
TimestampOfKey(key) == key \div Pow2(TS_SHIFT)

\* C18: an update whose timestamp is 0, off the resolution grid or after the
\* chain time is rejected with InvalidTimestamp and changes nothing; every
\* stored record has a timestamp that is a positive multiple of the
\* resolution and not after the chain time.
C18_InvalidTimestampRejected ==
    [][/\ IsCall
          => LET ts == lastCall'.timestamp
             IN  (ts = 0 \/ ts % config.resolution # 0 \/ ts > ChainTimeMs)
                 => /\ lastCall'.err = "InvalidTimestamp"
                    /\ temp' = temp
                    /\ last_timestamp' = last_timestamp
       /\ \A key \in DOMAIN temp' :
             /\ TimestampOfKey(key) > 0
             /\ TimestampOfKey(key) % config.resolution = 0
             /\ TimestampOfKey(key) <= now' * MS_PER_SEC]_vars

\* C18 witness: an update on the grid but after the chain time was rejected
\* and left no record, after an earlier update had been stored
C18_Witness ==
    /\ lastCall.err = "InvalidTimestamp"
    /\ lastCall.timestamp % config.resolution = 0
    /\ lastCall.timestamp > ChainTimeMs
    /\ ~get_price(temp, 0, lastCall.timestamp).some
    /\ ~get_last_yield_rate(temp, 0, lastCall.timestamp).some
    /\ last_timestamp > 0
    /\ last_timestamp < lastCall.timestamp

\* every asset slot a u8 can name
AllSlots == 0 .. MAX_ASSET_SLOT

\* timestamps the keys are compared at: neighbours and the update timestamps
KeyTimestamps == {1, 2000, 2001, 4000}

\* a step that is one single-slot update
IsSlotUpdate == observed = NoObservation /\ observed'.op = "set_price"

\* C19: for the slot and timestamp of an update and every slot in 0..255 at
\* every timestamp, the yield key differs from every price key, and two price
\* keys, or two yield keys, are equal only for equal (timestamp, slot).  An
\* update of one slot writes its own price and yield record and changes no
\* record under any other key.
C19_KeysNeverCollide ==
    [][IsSlotUpdate =>
        LET a == observed'.asset
            t == observed'.timestamp
            price_key == encode_record_key(t, a)
            yield_record_key == yield_key(t, a)
        IN  /\ \A a2 \in AllSlots, t2 \in KeyTimestamps :
                  LET price_key2 == encode_record_key(t2, a2)
                      yield_record_key2 == yield_key(t2, a2)
                  IN  /\ yield_record_key # price_key2
                      /\ yield_record_key2 # price_key
                      /\ price_key = price_key2 => (t = t2 /\ a = a2)
                      /\ yield_record_key = yield_record_key2 => (t = t2 /\ a = a2)
            /\ \A key \in (DOMAIN temp) \cup (DOMAIN temp') :
                  key \notin {price_key, yield_record_key}
                  => /\ key \in DOMAIN temp
                     /\ key \in DOMAIN temp'
                     /\ temp'[key] = temp[key]
            /\ observed'.result.err = "ok"
                 => /\ get_last_yield_rate(temp', a, t)
                          = Some(observed'.result.yield_rate)
                    /\ get_price(temp', a, t)
                          = Some((observed'.result.fx_price
                                    * observed'.result.yield_rate) \div Scale)]_vars

\* C19 witness: slot 128 was updated after slot 0 at the same timestamp, and
\* the four records are all stored, prices apart from yield rates
C19_Witness ==
    /\ observed.op = "set_price"
    /\ observed.asset = 128
    /\ observed.result.err = "ok"
    /\ get_price(temp, 128, observed.timestamp) = Some(57)
    /\ get_last_yield_rate(temp, 128, observed.timestamp) = Some(100)
    /\ get_price(temp, 0, observed.timestamp) = Some(57)
    /\ get_last_yield_rate(temp, 0, observed.timestamp) = Some(100)

\* a call of fixed_div_floor has returned or panicked
Divided == observed.op = "fixed_div_floor"

\* floor(a * 10^d / b) by long division, one decimal digit at a time; a
\* quotient beyond the signed width is not carried further
RECURSIVE LongDivision(_, _, _, _)
LongDivision(quotient, remainder, digits, b) ==
    IF digits = 0 \/ quotient > I128_MAX THEN quotient
    ELSE LongDivision(quotient * 10 + (remainder * 10) \div b,
                      (remainder * 10) % b, digits - 1, b)

ExactFloor(a, d, b) == LongDivision(a \div b, a % b, d, b)

\* a * 10^d fits the signed width (a >= 0)
ProductFits(a, d) == a <= I128_MAX \div Pow10(d)

\* the digits the dividend of the observed call is shifted by
ShiftOf(r) == min(MAX_SHIFT - ilog10(r.dividend), r.decimals)

\* C24 as stated: fixed_div_floor(a, b, d) returns floor(a * 10^d / b) for all
\* positive a and b, and fails for b <= 0 or a < 0.
C24_ExactFloorForAllPositive ==
    Divided =>
        LET r == observed.result
        IN  /\ (r.dividend > 0 /\ r.divisor > 0)
                  => /\ r.err = "ok"
                     /\ r.val = ExactFloor(r.dividend, r.decimals, r.divisor)
            /\ (r.divisor <= 0 \/ r.dividend < 0) => r.err # "ok"

\* C24 (amended): fixed_div_floor(a, b, d) returns floor(a * 10^d / b) for all
\* positive a and b whose product a * 10^d fits the signed width, and fails
\* for b <= 0 or a < 0.
C24_ExactFloorWhenProductFits ==
    Divided =>
        LET r == observed.result
        IN  /\ (/\ r.dividend > 0
                /\ r.divisor > 0
                /\ ProductFits(r.dividend, r.decimals))
                  => /\ r.err = "ok"
                     /\ r.val = ExactFloor(r.dividend, r.decimals, r.divisor)
            /\ (r.divisor <= 0 \/ r.dividend < 0) => r.err # "ok"

\* C24 witness: 2.00 / 0.07 is 28.57, the product 200 * 100 fitting
C24_Witness ==
    /\ Divided
    /\ observed.result.dividend = 200
    /\ observed.result.divisor = 7
    /\ observed.result.decimals = 2
    /\ observed.result.err = "ok"
    /\ observed.result.val = 2857

C26_NonPositiveOperandFails ==
    Divided =>
        LET r == observed.result
        IN  (r.dividend <= 0 \/ r.divisor <= 0) => r.err # "ok"

\* C26 witness: 0 / 1 failed
C26_Witness ==
    /\ Divided
    /\ observed.result.dividend = 0
    /\ observed.result.divisor = 1
    /\ observed.result.err = "panic"

\* the timestamp, in milliseconds, a cross price query reads at
CrossTimestampOf(o) ==
    IF o.op = "x_price" THEN BucketOf(o.timestamp) ELSE obtain_record_timestamp

\* C21: the cross rate of asset A against asset B at a timestamp is
\* floor(price_A * 10^decimals / price_B) of the two price records at that
\* timestamp, reported with the timestamp in seconds, and it is no data, not
\* a failure, when either record is missing.
C21_CrossRateIsFloorOfRatio ==
    (observed.op \in {"x_price", "x_last_price"}
        /\ observed.asset \in AssetSlots
        /\ observed.result.quote \in AssetSlots
        /\ CrossTimestampOf(observed) > 0)
    => LET t == CrossTimestampOf(observed)
           base == StoredPriceData(observed.asset, t)
           quote == StoredPriceData(observed.result.quote, t)
           r == observed.result
       IN  /\ r.err = "ok"
           /\ (base.some /\ quote.some)
                => r.val = Some(PriceData(ExactFloor(base.val.price, config.decimals,
                                                     quote.val.price),
                                          t \div MS_PER_SEC))
           /\ (~base.some \/ ~quote.some) => r.val = NoPriceData

\* C21 witness: the cross rate of 3.27, the largest price that can be stored,
\* against 0.57, asked for inside the bucket of 2 s, is 5.73
C21_Witness ==
    /\ observed.op = "x_price"
    /\ observed.asset = 0
    /\ observed.result.quote = 1
    /\ observed.timestamp = 3
    /\ StoredPriceData(0, 2000) = Some(PriceData(I128_MAX \div 100, 2))
    /\ StoredPriceData(1, 2000) = Some(PriceData(57, 2))
    /\ observed.result.err = "ok"
    /\ observed.result.val = Some(PriceData(573, 2))

\* the (cross-)price an average query reads for a period, if there is one
PeriodPrice(o, t) ==
    LET base == StoredPriceData(o.asset, t)
    IN  IF o.op = "twap" THEN (IF base.some THEN Some(base.val.price) ELSE None)
        ELSE LET quote == StoredPriceData(o.result.quote, t)
             IN  IF base.some /\ quote.some
                 THEN Some(ExactFloor(base.val.price, config.decimals, quote.val.price))
                 ELSE None

\* the period k steps before the latest timestamp
PeriodAt(k) == obtain_record_timestamp - k * config.resolution

RECURSIVE SumOfPeriods(_, _)
SumOfPeriods(o, n) ==
    IF n = 0 THEN 0 ELSE PeriodPrice(o, PeriodAt(n - 1)).val + SumOfPeriods(o, n - 1)

QueryOps == {"lastprice", "price", "x_last_price", "x_price"}

\* a step that is one spot, last-price or cross-rate query
IsQuery == observed = NoObservation /\ observed'.op \in QueryOps

\* the timestamp, in milliseconds, a query reads at
QueryTimestampOf(o) ==
    IF o.op \in {"price", "x_price"} THEN BucketOf(o.timestamp)
    ELSE obtain_record_timestamp

\* the assets a query names
AssetsOf(o) ==
    IF o.op \in {"x_last_price", "x_price"} THEN {o.asset, o.result.quote}
    ELSE {o.asset}

\* an asset the query names is not registered, or has no unexpired price
\* record at the timestamp the query reads at
DataMissing(o) ==
    \E a \in AssetsOf(o) :
        \/ a \notin AssetSlots
        \/ QueryTimestampOf(o) = 0
        \/ ~StoredPriceData(a, QueryTimestampOf(o)).some

\* C23: spot, last-price and cross-rate queries do not fail on missing data:
\* for an unregistered asset (base, quote or both), a timestamp with no
\* record, or an expired record, they return no data, and they change nothing
\* that is stored.
C23_QueriesReportAbsence ==
    [][IsQuery =>
        LET o == observed'
        IN  /\ temp' = temp
            /\ last_timestamp' = last_timestamp
            /\ config' = config
            /\ o.op \in {"x_last_price", "x_price"} => o.result.err = "ok"
            /\ DataMissing(o)
                 => IF o.op \in {"x_last_price", "x_price"}
                    THEN o.result.val = NoPriceData
                    ELSE o.result = NoPriceData]_vars

\* C23 witness: a cross rate asked for at the timestamp of an accepted update
\* whose records have expired is answered with no data
C23_Witness ==
    /\ observed.op = "x_price"
    /\ observed.asset = 0
    /\ observed.result.quote = 1
    /\ lastAccepted[0].some
    /\ lastAccepted[0].timestamp = BucketOf(observed.timestamp)
    /\ ~StoredPriceData(0, BucketOf(observed.timestamp)).some
    /\ observed.result.err = "ok"
    /\ observed.result.val = NoPriceData

\* the price record and the yield record of a slot at a timestamp, with
\* their times to live, as a store holds them
RecordsAt(store, a, t) ==
    [k \in {encode_record_key(t, a), yield_key(t, a)} \cap DOMAIN store |-> store[k]]

\* what a batch does with an entry equal to 0 for slot a: it is skipped
\* without InvalidYieldRate, the records of the slot at the batch timestamp
\* stay as they were, and the other slots of a successful batch are written
ZeroEntrySkipped(a) ==
    LET t == lastCall'.timestamp IN
    /\ lastCall'.outcome[a] = "skipped"
    /\ RecordsAt(temp', a, t) = RecordsAt(temp, a, t)
    /\ lastCall'.err = "ok"
         => \A b \in AssetSlots \ {a} :
               lastCall'.updates[b + 1] # 0
               => /\ get_price(temp', b, t).some
                  /\ get_last_yield_rate(temp', b, t) = Some(lastCall'.updates[b + 1])

\* after the batch, the cross rates with slot a at the batch timestamp are no data
NoCrossRateWith(a) ==
    \A b \in AssetSlots \ {a} :
        /\ get_x_price(temp', a, b, lastCall'.timestamp) = {Returned(NoPriceData)}
        /\ get_x_price(temp', b, a, lastCall'.timestamp) = {Returned(NoPriceData)}

\* C30 as stated: in a batch update an entry equal to 0 is skipped: no price
\* record and no yield record is written for that asset at the batch
\* timestamp and no InvalidYieldRate is raised, the other assets of the batch
\* are still written, and a cross rate with the skipped asset at that
\* timestamp reports no data.
C30_SkippedAssetHasNoCrossRate ==
    [][IsCall =>
        \A a \in AssetSlots :
            (lastCall'.updates[a + 1] = 0 /\ lastCall'.outcome[a] # "not_reached")
            => /\ ZeroEntrySkipped(a)
               /\ lastCall'.err = "ok" => NoCrossRateWith(a)]_vars

\* C30 (amended): as stated, the cross rate with the skipped asset at the
\* batch timestamp being no data unless an earlier batch stored a price for
\* the asset at that timestamp.
C30_ZeroEntryIsSkipped ==
    [][IsCall =>
        \A a \in AssetSlots :
            (lastCall'.updates[a + 1] = 0 /\ lastCall'.outcome[a] # "not_reached")
            => /\ ZeroEntrySkipped(a)
               /\ (lastCall'.err = "ok" /\ ~get_price(temp, a, lastCall'.timestamp).some)
                    => NoCrossRateWith(a)]_vars

\* C30 witness: a batch with 0 for slot 1 went through, slot 0 has its records
\* at the batch timestamp and slot 1 has none
C30_Witness ==
    /\ lastCall.err = "ok"
    /\ lastCall.updates[2] = 0
    /\ lastCall.outcome[1] = "skipped"
    /\ lastCall.outcome[0] = "ok"
    /\ get_price(temp, 0, lastCall.timestamp) = Some(lastCall.updates[1])
    /\ RecordsAt(temp, 1, lastCall.timestamp) = << >>
    /\ get_x_price(temp, 0, 1, lastCall.timestamp) = {Returned(NoPriceData)}

\* the key of a price record: the yield bit is clear
IsPriceKey(key) == (key \div Pow2(YIELD_BIT)) % 2 = 0

\* C27: every price record in the store is strictly positive, in every
\* reachable state; hence the cross rate of any two stored prices is computed
\* without a division by zero or by a negative price.
C27_StoredPricesArePositive ==
    /\ \A key \in DOMAIN temp : IsPriceKey(key) => temp[key].val > 0
    /\ \A t \in FxTimestampInputs, a \in AssetSlots, b \in AssetSlots :
          (a # b /\ get_price(temp, a, t).some /\ get_price(temp, b, t).some)
          => \A r \in get_x_price_by_indexes(temp, a, b, t) :
                r.err = "ok" /\ r.val.some /\ r.val.val.price >= 0

\* C27 witness: the smallest positive FX price and the smallest yield rate
\* gave the price 0.01, and the cross rates with it are computed
C27_Witness ==
    /\ lastCall.err = "ok"
    /\ lastCall.oracle[fxs[2]].val.price = 1
    /\ lastCall.updates[2] = Scale
    /\ get_price(temp, 1, lastCall.timestamp) = Some(1)
    /\ get_price(temp, 0, lastCall.timestamp) = Some(100)
    /\ get_x_price_by_indexes(temp, 0, 1, lastCall.timestamp)
          = {Returned(Some(PriceData(10000, lastCall.timestamp \div MS_PER_SEC)))}
    /\ get_x_price_by_indexes(temp, 1, 0, lastCall.timestamp)
          = {Returned(Some(PriceData(1, lastCall.timestamp \div MS_PER_SEC)))}

\* C28: in every reachable state an unexpired price record at (timestamp,
\* asset) has an unexpired yield record at the same (timestamp, asset), of a
\* rate that passed the validation floor, and the two expire at the same
\* ledger: the price does not outlive its yield record.
C28_PriceHasYieldRecord ==
    \A key \in DOMAIN temp :
        (IsPriceKey(key) /\ temp_live(temp, key))
        => LET ykey == key + Pow2(YIELD_BIT)
           IN  /\ ykey \in DOMAIN temp
               /\ temp_live(temp, ykey)
               /\ temp[ykey].live_until = temp[key].live_until
               /\ temp[ykey].val >= Scale

\* C28 witness: the records of an update made with 17 ledgers to live are
\* both still there, with the same expiry, after 16 ledgers
C28_Witness ==
    /\ seq > 0
    /\ \E a \in AssetSlots, t \in TimestampInputs :
          /\ get_price(temp, a, t).some
          /\ get_last_yield_rate(temp, a, t).some
          /\ temp[encode_record_key(t, a)].live_until = config.ledgers_to_live
          /\ temp[yield_key(t, a)].live_until = config.ledgers_to_live
          /\ config.ledgers_to_live > MIN_TEMP_TTL

\* C29: a price record, once written for a (timestamp, asset) key, is not
\* changed by any later operation while it is unexpired: whatever the step,
\* a price record that is unexpired before and after it has the same value.
C29_PriceRecordNeverChanges ==
    [][\A key \in DOMAIN temp :
          (/\ IsPriceKey(key)
           /\ temp_live(temp, key)
           /\ key \in DOMAIN temp'
           /\ temp'[key].live_until >= seq')
          => temp'[key].val = temp[key].val]_vars

\* C40: every yield record in the store is at least 10^decimals, and after a
\* successful update the yield record at (timestamp, asset) is exactly the
\* yield rate that was submitted for the asset.
C40_YieldRecordsAreSubmittedRates ==
    /\ \A key \in DOMAIN temp : ~IsPriceKey(key) => temp[key].val >= Scale
    /\ lastCall.err = "ok"
         => \A a \in AssetSlots :
               lastCall.outcome[a] = "ok"
               => get_last_yield_rate(temp, a, lastCall.timestamp)
                     = Some(lastCall.updates[a + 1])

\* C40 witness: a rate of exactly 1.00 for slot 0 and 1.10 for slot 1 were
\* accepted and are the yield records of the batch timestamp, the price of
\* slot 1 being another number
C40_Witness ==
    /\ lastCall.err = "ok"
    /\ lastCall.updates = <<Scale, 110>>
    /\ get_last_yield_rate(temp, 0, lastCall.timestamp) = Some(Scale)
    /\ get_last_yield_rate(temp, 1, lastCall.timestamp) = Some(110)
    /\ get_price(temp, 1, lastCall.timestamp) = Some(62)

\* C39: when the new yield rate is lower than the previous one the deviation
\* check never fails: YieldRateDeviationExceeded is raised only for
\* next > prev, whatever the maximum deviation; with the maximum unset (read
\* as 0) or set to 0, a rise of 1% or more is rejected and a rise below 1%
\* is accepted.
C39_DeviationOnlyOnRise ==
    lastCall # NoCall
      => \A a \in AssetSlots :
            (Ran(lastCall, a) /\ lastCall.prev[a].some)
            => LET prev == lastCall.prev[a].val
                   next == lastCall.updates[a + 1]
               IN  /\ lastCall.outcome[a] = "YieldRateDeviationExceeded" => next > prev
                   /\ (/\ config.max_yield_deviation \in {UNSET, 0}
                       /\ next > prev
                       /\ InI128((next - prev) * 100))
                      => IF RisePct(prev, next) >= 1
                         THEN lastCall.outcome[a] = "YieldRateDeviationExceeded"
                         ELSE lastCall.outcome[a] \notin YieldErrors

C39_Witness ==
    /\ config.max_yield_deviation = UNSET
    /\ lastCall.prev[0] = Some(200)
    /\ lastCall.updates[1] = 201
    /\ lastCall.err = "ok"

C39_WitnessRiseRejected ==
    /\ config.max_yield_deviation = UNSET
    /\ lastCall.prev[0] = Some(200)
    /\ lastCall.updates[1] = 202
    /\ lastCall.err = "YieldRateDeviationExceeded"

C39_WitnessDropAccepted ==
    /\ config.max_yield_deviation = 0
    /\ lastCall.prev[0] = Some(200)
    /\ lastCall.updates[1] = 198
    /\ lastCall.err = "ok"

\* what the yield validation answers for a new rate next >= 1.0 against a
\* baseline prev under a maximum deviation
YieldVerdict(prev, next, max_deviation) ==
    IF next < prev /\ ~InI128((prev - next) * 100) THEN "IntegerOverflow"
    ELSE IF next < prev /\ DropPct(prev, next) > 1 THEN "YieldRateDecreased"
    ELSE IF ~InI128((next - prev) * 100) THEN "IntegerOverflow"
    ELSE IF next >= prev /\ RisePct(prev, next) > max_deviation
    THEN "YieldRateDeviationExceeded"
    ELSE "ok"

\* the configured maximum deviation, 0 when it was never written
MaxDeviation == IF config.max_yield_deviation = UNSET THEN 0 ELSE config.max_yield_deviation

\* C36: the baseline a new yield rate is validated against is the yield
\* record of the asset at the timestamp the continuity resolver returns when
\* the call is made; when the resolver returns 0 no baseline is read and the
\* rate is validated as on a cold start, whatever older yield records of the
\* asset are still in the store.
C36_BaselineIsRecordAtResolvedTimestamp ==
    [][IsCall =>
        \A a \in AssetSlots :
           (Ran(lastCall', a) /\ lastCall'.outcome[a] # "InvalidYieldRate")
           => LET resolved == obtain_record_timestamp
                  base == IF resolved > 0 THEN get_last_yield_rate(temp, a, resolved)
                          ELSE None
                  next == lastCall'.updates[a + 1]
              IN  /\ lastCall'.prev[a] = base
                  /\ ~base.some
                       => lastCall'.outcome[a] \notin {"YieldRateDecreased",
                                                       "YieldRateDeviationExceeded"}
                  /\ base.some
                       => LET verdict == YieldVerdict(base.val, next, MaxDeviation)
                          IN  IF verdict = "ok"
                              THEN lastCall'.outcome[a] \notin YieldErrors
                              ELSE lastCall'.outcome[a] = verdict]_vars

\* a rate of 1.00 is accepted at 4000 while the record of 2.00 at 2000 is
\* still in the store, because the marker lies two resolutions behind
C36_Witness ==
    /\ lastCall.err = "ok"
    /\ lastCall.timestamp = 4000
    /\ lastCall.updates = <<100, 0>>
    /\ lastCall.prev[0] = None
    /\ get_last_yield_rate(temp, 0, 2000) = Some(200)

\* C37: when a difference of the two rates, or a difference times 100, does
\* not fit the signed integer width, the update of the slot fails with
\* IntegerOverflow: a rise that large is not reported as
\* YieldRateDeviationExceeded and the call is not accepted.
C37_OversizedChangeIsIntegerOverflow ==
    lastCall # NoCall
      => \A a \in AssetSlots :
            (Ran(lastCall, a) /\ lastCall.prev[a].some)
            => LET prev == lastCall.prev[a].val
                   next == lastCall.updates[a + 1]
               IN  (\/ ~InI128(prev - next)
                    \/ ~InI128(next - prev)
                    \/ ~InI128((prev - next) * 100)
                    \/ ~InI128((next - prev) * 100))
                   => /\ lastCall.outcome[a] = "IntegerOverflow"
                      /\ lastCall.err = "IntegerOverflow"

\* a rise from 1.00 to 5.00: the change times 100 does not fit
C37_Witness ==
    /\ lastCall.prev[1] = Some(100)
    /\ lastCall.updates = <<0, 500>>
    /\ lastCall.err = "IntegerOverflow"

\* a drop from 5.00 to 1.00
C37_WitnessDrop ==
    /\ lastCall.prev[1] = Some(500)
    /\ lastCall.updates = <<0, 100>>
    /\ lastCall.err = "IntegerOverflow"

\* C35: with a maximum deviation of 10 percent, after an accepted update with
\* yield 1.05 one resolution earlier, an update with yield 1.10 succeeds and
\* an update with yield 1.17 validated against the 1.05 baseline (a rise of
\* 11.4 percent) fails with YieldRateDeviationExceeded.
C35_ExampleRiseOfTheSpec ==
    (/\ config.max_yield_deviation = 10
     /\ lastCall # NoCall
     /\ lastCall.timestamp = 4000
     /\ Ran(lastCall, 1)
     /\ lastCall.prev[1] = Some(105)
     /\ get_last_yield_rate(temp, 1, 2000) = Some(105))
    => /\ lastCall.updates[2] = 110
          => /\ lastCall.err = "ok"
             /\ get_last_yield_rate(temp, 1, 4000) = Some(110)
       /\ lastCall.updates[2] = 117
          => /\ lastCall.err = "YieldRateDeviationExceeded"
             /\ RisePct(105, 117) = 11
             /\ get_last_yield_rate(temp, 1, 4000) # Some(117)

\* the update with 1.17 against the record of 1.05 is refused
C35_Witness ==
    /\ config.max_yield_deviation = 10
    /\ lastCall.timestamp = 4000
    /\ lastCall.prev[1] = Some(105)
    /\ lastCall.updates = <<0, 117>>
    /\ lastCall.err = "YieldRateDeviationExceeded"
    /\ get_last_yield_rate(temp, 1, 2000) = Some(105)

\* the update with 1.10 against the record of 1.05 is accepted
C35_WitnessAccepted ==
    /\ config.max_yield_deviation = 10
    /\ lastCall.timestamp = 4000
    /\ lastCall.prev[1] = Some(105)
    /\ lastCall.updates = <<0, 110>>
    /\ lastCall.err = "ok"
    /\ get_last_yield_rate(temp, 1, 2000) = Some(105)

\* the slot a record key belongs to
SlotOfKey(key) == key % Pow2(YIELD_BIT)

\* stores that hold the same records of a slot as the given one and other
\* records of the other slots: none at all, or another yield rate at a
\* timestamp of the runs
StoresAgreeingOn(store, a) ==
    {[k \in {x \in DOMAIN store : SlotOfKey(x) = a} |-> store[k]]}
    \cup {set_last_yield_rate(store, j, t, v, config.ledgers_to_live) :
             j \in AssetSlots \ {a}, t \in {2000, 4000}, v \in {100, 200, 500}}

\* C32: the validation of the new rate of a slot depends on the records of
\* that slot alone: the outcome of the slot in a batch is the outcome the same
\* rate has against any store that agrees on the records of the slot, whatever
\* the previous and new rates of the other slots are.
C32_ValidationIsPerAsset ==
    [][IsCall =>
        \A a \in AssetSlots :
           Ran(lastCall', a)
           => \A other \in StoresAgreeingOn(temp, a) :
                 set_price(other, a, fxs[a + 1], lastCall'.updates[a + 1],
                           lastCall'.timestamp, config.ledgers_to_live,
                           lastCall'.oracle).err
                   = lastCall'.outcome[a]]_vars

\* slot 1 keeps 2.00 in a batch in which slot 0 keeps 1.00: against the
\* record of slot 0 the rate of slot 1 would be a rise of 100 percent
C32_Witness ==
    /\ lastCall.updates = <<100, 200>>
    /\ lastCall.prev[0] = Some(100)
    /\ lastCall.prev[1] = Some(200)
    /\ lastCall.err = "ok"

\* both slots are validated in one batch against different baselines
C32_WitnessBoth ==
    /\ lastCall.updates = <<110, 110>>
    /\ lastCall.prev[0] = Some(100)
    /\ lastCall.prev[1] = Some(200)

\* the first check of set_price that fails for a slot, taken in the order
\* yield floor, drop, deviation, oracle address, oracle answer, timestamp
\* conversion, drift, sign of the price, product
FirstFailingCheck(call, a) ==
    LET next == call.updates[a + 1]
        base == call.prev[a]
        answer == call.oracle[fxs[a + 1]]
    IN  IF next < Scale THEN "InvalidYieldRate"
        ELSE IF base.some /\ YieldVerdict(base.val, next, MaxDeviation) # "ok"
        THEN YieldVerdict(base.val, next, MaxDeviation)
        ELSE IF fxs[a + 1] = "USD"
        THEN IF InI128(Scale * next) THEN "ok" ELSE "IntegerOverflow"
        ELSE IF ~config.fx_oracle_address THEN "FxOracleUnavailable"
        ELSE IF ~answer.some THEN "StaleFxPrice"
        ELSE IF answer.val.timestamp * MS_PER_SEC > U64_MAX THEN "IntegerOverflow"
        ELSE IF DriftOf(call, a) > 2 * config.resolution THEN "FxOracleTimestampDrift"
        ELSE IF answer.val.price <= 0 THEN "InvalidFxPrice"
        ELSE IF InI128(answer.val.price * next) THEN "ok" ELSE "IntegerOverflow"

\* C38: the checks of one set_price call are made in a fixed order and the
\* first that fails gives the error: InvalidYieldRate, YieldRateDecreased,
\* YieldRateDeviationExceeded, then FxOracleUnavailable, StaleFxPrice, the
\* IntegerOverflow of the timestamp conversion, FxOracleTimestampDrift,
\* InvalidFxPrice, then the IntegerOverflow of the product. An invalid yield
\* rate is reported as such when the oracle is unavailable or has no price,
\* and a drifted oracle timestamp as drift when the price is <= 0.
C38_FirstFailingCheckDecides ==
    lastCall # NoCall
      => \A a \in AssetSlots :
            Ran(lastCall, a) => lastCall.outcome[a] = FirstFailingCheck(lastCall, a)

\* a price of 0 with a timestamp a second old is reported as drift
C38_Witness ==
    /\ lastCall.updates = <<0, 100>>
    /\ lastCall.oracle = [MXN |-> Some(PriceData(0, 7))]
    /\ lastCall.err = "FxOracleTimestampDrift"

\* a rate below 1.0 without an oracle address
C38_WitnessYieldBeforeOracle ==
    /\ ~config.fx_oracle_address
    /\ lastCall.updates = <<0, 99>>
    /\ lastCall.err = "InvalidYieldRate"

\* a rise beyond the maximum with an oracle that has no price
C38_WitnessDeviationBeforeStale ==
    /\ lastCall.updates = <<0, 112>>
    /\ lastCall.prev[1] = Some(100)
    /\ lastCall.oracle = [MXN |-> NoPriceData]
    /\ lastCall.err = "YieldRateDeviationExceeded"

\* a drop beyond 1% with a timestamp that cannot be converted
C38_WitnessDropBeforeConversion ==
    /\ lastCall.updates = <<0, 100>>
    /\ lastCall.prev[1] = Some(112)
    /\ lastCall.oracle = [MXN |-> Some(PriceData(0, 66))]
    /\ lastCall.err = "YieldRateDecreased"

\* the product of a valid price and a valid rate does not fit
C38_WitnessProduct ==
    /\ lastCall.updates = <<0, 100>>
    /\ lastCall.oracle = [MXN |-> Some(PriceData(400, 8))]
    /\ lastCall.err = "IntegerOverflow"

\* C31: an update whose number of entries differs from the number of
\* registered assets, and so every update with entries when no asset is
\* registered, is rejected and writes nothing; an update with one entry per
\* registered asset passes the length check and, at a valid timestamp with
\* valid rates, writes a record for every slot.
C31_LengthMustMatchRegistry ==
    [][IsCall =>
        IF Len(lastCall'.updates) # NumAssets
        THEN /\ lastCall'.err # "ok"
             /\ lastCall'.outcome = NotReached
             /\ temp' = temp
             /\ last_timestamp' = last_timestamp
        ELSE /\ lastCall'.err # "InvalidUpdateLength"
             /\ ~is_invalid_timestamp(lastCall'.timestamp)
                  => /\ lastCall'.err = "ok"
                     /\ last_timestamp' >= lastCall'.timestamp
                     /\ \A a \in AssetSlots :
                           get_last_yield_rate(temp', a, lastCall'.timestamp)
                             = Some(lastCall'.updates[a + 1])]_vars

\* one entry is sent to a contract with no asset registered
C31_Witness ==
    /\ NumAssets = 0
    /\ lastCall.updates = <<100>>
    /\ lastCall.err = "InvalidUpdateLength"
    /\ temp = << >>

\* three entries are sent to a contract with two assets
C31_WitnessTooLong ==
    /\ NumAssets = 2
    /\ Len(lastCall.updates) = 3
    /\ lastCall.err = "InvalidUpdateLength"

\* two entries are sent to a contract with two assets
C31_WitnessProcessed ==
    /\ NumAssets = 2
    /\ lastCall.updates = <<100, 100>>
    /\ lastCall.err = "ok"
    /\ get_last_yield_rate(temp, 1, lastCall.timestamp) = Some(100)

\* a step that is one administrative call
IsAdminCall == observed = NoObservation /\ observed'.op \in {"set_period", "add_assets"}

\* C33: an administrative call succeeds only when the configured admin
\* authorized it: a call authorized by other addresses only, or made when no
\* admin is set (Unauthorized), fails and leaves the configuration as it was;
\* set_period authorized by the admin succeeds and stores the period.
C33_OnlyTheAdminAdministers ==
    [][IsAdminCall =>
        LET result == observed'.result
            authorized == config.admin.some /\ config.admin.val \in result.auths
        IN  /\ ~authorized => result.err # "ok" /\ config' = config
            /\ ~config.admin.some => result.err = "Unauthorized"
            /\ result.err = "ok" => authorized
            /\ (authorized /\ observed'.op = "set_period")
                 => /\ result.err = "ok"
                    /\ config' = [config EXCEPT !.period = result.period]]_vars

\* set_period authorized by another address than the admin has failed
C33_Witness ==
    /\ observed.op = "set_period"
    /\ config.admin = Some("admin")
    /\ observed.result.auths = {"account"}
    /\ observed.result.err = "auth"
    /\ config.period = 0

\* set_period authorized by the admin
C33_WitnessAuthorized ==
    /\ observed.op = "set_period"
    /\ observed.result.auths = {"admin"}
    /\ observed.result.err = "ok"
    /\ config.period = 100

\* set_period on a contract without an admin
C33_WitnessNoAdmin ==
    /\ observed.op = "set_period"
    /\ ~config.admin.some
    /\ observed.result.auths = {"admin"}
    /\ observed.result.err = "Unauthorized"

\* the registered assets
RegisteredAssets == DOMAIN config.index

\* C34: the registry never holds an asset twice and never holds 256 assets or
\* more: add_assets is rejected as a whole on an asset that is registered
\* already or named twice, on assets and FX symbols of different lengths, and
\* when the limit would be reached; so every stored index is below 256 and
\* get_asset_index gives different slots to different registered assets.
C34_RegistryIsInjectiveAndBounded ==
    [][/\ Len(config'.assets) <= MAX_ASSET_SLOT
       /\ Len(config'.fxs) = Len(config'.assets)
       /\ Cardinality(Range(config'.assets)) = Len(config'.assets)
       /\ DOMAIN config'.index = Range(config'.assets)
       /\ \A asset \in DOMAIN config'.index :
             /\ config'.index[asset] <= MAX_ASSET_SLOT
             /\ config'.assets[config'.index[asset] + 1] = asset
             /\ get_asset_index(asset)' = Some(config'.index[asset])
       /\ Cardinality({get_asset_index(asset)' : asset \in DOMAIN config'.index})
             = Cardinality(DOMAIN config'.index)
       /\ (observed = NoObservation /\ observed'.op = "add_assets")
            => LET call == observed'.result
               IN  (\/ Range(call.assets) \cap RegisteredAssets # {}
                    \/ Cardinality(Range(call.assets)) # Len(call.assets)
                    \/ Len(call.assets) # Len(call.fxs)
                    \/ Len(config.assets) + Len(call.assets) > MAX_ASSET_SLOT)
                   => call.err # "ok" /\ config' = config]_vars

\* the registry is full: 255 assets, the last in slot 255 - 1
C34_Witness ==
    /\ Len(config.assets) = MAX_ASSET_SLOT
    /\ observed.op = "add_assets"
    /\ observed.result.err = "ok"
    /\ get_asset_index(config.assets[MAX_ASSET_SLOT]) = Some(MAX_ASSET_SLOT - 1)

\* a batch that would bring the registry to 256 assets has been refused
C34_WitnessLimit ==
    /\ Len(config.assets) = 2
    /\ observed.op = "add_assets"
    /\ Len(observed.result.assets) = MAX_ASSET_SLOT - 1
    /\ observed.result.err = "AssetLimitExceeded"

\* a batch that names an asset twice has been refused
C34_WitnessDuplicate ==
    /\ observed.op = "add_assets"
    /\ observed.result.assets = <<7, 7>>
    /\ observed.result.err = "AssetAlreadyExists"
    /\ 7 \notin RegisteredAssets

\* a batch with fewer FX symbols than assets has been refused
C34_WitnessMismatch ==
    /\ observed.op = "add_assets"
    /\ observed.result.err = "FxArrayLengthMismatch"

====
